---- MODULE Spec2Model ----
(***************************************************************************)
(* EHCI (USB 2.0) host-controller driver of CrabEFI:                       *)
(* src/src/drivers/usb/ehci.rs.                                            *)
(*                                                                         *)
(* The model keeps the driver's memory byte for byte: the permanent head   *)
(* Queue Head, and the DMA scratch region in which control_transfer and    *)
(* bulk_transfer build their QH, qTDs and staging buffers.  A u32 stored   *)
(* in memory is its four little-endian bytes; a register value is a        *)
(* natural number.  The host controller is a second process: it completes  *)
(* the qTDs of the QH linked behind the head and answers the               *)
(* Interrupt-on-Async-Advance doorbell.                                    *)
(***************************************************************************)
EXTENDS Integers, Sequences, FiniteSets, TLC

(***************************************************************************)
(* Bounds of the model.                                                    *)
(***************************************************************************)
\* longest data buffer a caller passes
MaxLen == 2
\* number of control_transfer / bulk_transfer calls in one behaviour
MaxCalls == 2
\* the transactions over a behaviour that the hardware does not complete
\* cleanly and in time: a qTD retired with an error status, or a wait that
\* expires while the controller still has work it could finish
MaxFaults == 1

(***************************************************************************)
(* Register offsets and bits (mod op_regs, usbcmd, usbsts).                *)
(***************************************************************************)
USBCMD == 0
USBSTS == 4
USBINTR == 8
CTRLDSSEGMENT == 16
PERIODICLISTBASE == 20
ASYNCLISTADDR == 24
CONFIGFLAG == 64

RS == 1
HCRESET == 2
FLS_1024 == 0
PSE == 16
ASE == 32
IAAD == 64
ITC_8 == 524288

IAA == 32
HCHALTED == 4096
PSS == 16384
ASS == 32768

(***************************************************************************)
(* qTD token bits (impl QueueTransferDescriptor).  The token is a u32; the *)
(* constants below are the bits of its low half (bits 0..15).  Bits 16..30 *)
(* are the total-bytes field and bit 31 is the data toggle.                *)
(***************************************************************************)
PID_OUT == 0
PID_IN == 256
PID_SETUP == 512
TOKEN_ACTIVE == 128
TOKEN_HALTED == 64
TOKEN_DATA_BUFFER_ERROR == 32
TOKEN_BABBLE == 16
TOKEN_XACT_ERROR == 8
TOKEN_ERROR_MASK == TOKEN_HALTED + TOKEN_DATA_BUFFER_ERROR + TOKEN_BABBLE + TOKEN_XACT_ERROR
\* CERR = 3 (3 << 10)
TOKEN_CERR3 == 3072
\* Interrupt on Complete (1 << 15)
TOKEN_IOC == 32768

(***************************************************************************)
(* Table sizes.                                                            *)
(***************************************************************************)
MAX_DEVICES == 8

(***************************************************************************)
(* Bit arithmetic on naturals.                                             *)
(***************************************************************************)
\* a | b and a & b bit by bit
RECURSIVE OrBits(_, _)
OrBits(a, b) ==
    IF a = 0 THEN b
    ELSE IF b = 0 THEN a
    ELSE (IF a % 2 = 1 \/ b % 2 = 1 THEN 1 ELSE 0) + 2 * OrBits(a \div 2, b \div 2)

RECURSIVE AndBits(_, _)
AndBits(a, b) ==
    IF a = 0 \/ b = 0 THEN 0
    ELSE (IF a % 2 = 1 /\ b % 2 = 1 THEN 1 ELSE 0) + 2 * AndBits(a \div 2, b \div 2)

\* the operands are evaluated once, then combined
BitOr(a, b) == CHOOSE r \in {OrBits(x, y) : x \in {a}, y \in {b}} : TRUE

BitAnd(a, b) == CHOOSE r \in {AndBits(x, y) : x \in {a}, y \in {b}} : TRUE

\* a & !m
BitClear(a, m) == a - BitAnd(a, m)

(***************************************************************************)
(* u32 values in memory: four little-endian bytes, built from the high and *)
(* low 16-bit halves.                                                      *)
(***************************************************************************)
U32(hi, lo) == <<lo % 256, (lo \div 256) % 256, hi % 256, (hi \div 256) % 256>>
Lo16(w) == w[1] + 256 * w[2]
Hi16(w) == w[3] + 256 * w[4]
\* `x as u32` of a natural below 2^31
ToU32(n) == U32(n \div 65536, n % 65536)
\* the natural a u32 denotes, when it is below 2^31
FromU32(w) == Lo16(w) + 65536 * Hi16(w)

Zeros(n) == [i \in 1..n |-> 0]

Read32(m, a) == <<m[a], m[a + 1], m[a + 2], m[a + 3]>>
\* a write of the byte sequence s at address a
WriteBytes(m, a, s) ==
    [x \in (a .. a + Len(s) - 1) \cap DOMAIN m |-> s[x - a + 1]] @@ m
Write32(m, a, w) == WriteBytes(m, a, w)

(***************************************************************************)
(* Memory map.  The three regions are the pages EhciController::new gets   *)
(* from efi::allocate_pages; only their being page aligned and distinct    *)
(* matters.                                                                *)
(***************************************************************************)
AsyncQh == 4096
PeriodicList == 8192
DmaBuffer == 12288

(***************************************************************************)
(* Record layouts as rustc lays out the declarations                       *)
(* (#[repr(C, align(32))]): fields in declaration order at their natural   *)
(* alignment, the nested overlay at the next multiple of its own alignment *)
(* (32), sizes rounded up to a multiple of 32.                             *)
(***************************************************************************)
QTD_next_qtd == 0
QTD_alt_qtd == 4
QTD_token == 8
QTD_buffer_ptrs == 12
QTD_ext_buffer_ptrs == 32
QTD_SIZE == 64

QH_horiz_link_ptr == 0
QH_ep_chars == 4
QH_ep_caps == 8
QH_cur_qtd == 12
QH_overlay == 32
QH_SIZE == 96

\* the addresses of the model's memory: the head QH, the DMA region up to
\* the end of the third control qTD (the bulk engine's staging buffer lies
\* inside), and the control engine's staging buffer
CtlQhAddr == DmaBuffer + 64
CtlQtdBase == CtlQhAddr + 64
CtlDataBuffer == CtlQtdBase + 256
BulkQhAddr == DmaBuffer
BulkQtdAddr == BulkQhAddr + 64
BulkDataBuffer == BulkQtdAddr + 64

Addrs ==
    (AsyncQh .. AsyncQh + QH_SIZE - 1)
        \cup (DmaBuffer .. CtlQtdBase + 2 * 32 + QTD_SIZE - 1)
        \cup (CtlDataBuffer .. CtlDataBuffer + MaxLen - 1)

(***************************************************************************)
(* Option<T>: None is the empty sequence, Some(x) the one-element one.     *)
(***************************************************************************)
None == <<>>
Some(x) == <<x>>
IsSome(o) == Len(o) = 1
Unwrap(o) == o[1]

(***************************************************************************)
(* QueueTransferDescriptor                                                 *)
(***************************************************************************)
RECURSIVE Flatten(_)
Flatten(ws) == IF ws = <<>> THEN <<>> ELSE Head(ws) \o Flatten(Tail(ws))

QtdDefault ==
    [next_qtd |-> ToU32(0), alt_qtd |-> ToU32(0), token |-> ToU32(0),
     buffer_ptrs |-> [i \in 1..5 |-> ToU32(0)],
     ext_buffer_ptrs |-> [i \in 1..5 |-> ToU32(0)]]

\* the bytes of a whole-record store of a qTD (padding stored as zero)
QtdImage(q) ==
    q.next_qtd \o q.alt_qtd \o q.token \o Flatten(q.buffer_ptrs)
        \o Flatten(q.ext_buffer_ptrs) \o Zeros(QTD_SIZE - 52)

TokenToggle(dt) == IF dt THEN 32768 ELSE 0

\* QueueTransferDescriptor::setup(setup_packet, data_toggle)
QtdSetup(setup_packet, data_toggle) ==
    [QtdDefault EXCEPT
        !.next_qtd = ToU32(1),
        !.alt_qtd = ToU32(1),
        !.token = U32(BitOr(8, TokenToggle(data_toggle)),
                      BitOr(BitOr(PID_SETUP, TOKEN_ACTIVE), TOKEN_CERR3)),
        !.buffer_ptrs[1] = ToU32(setup_packet)]

\* the buffer-pointer loop of QueueTransferDescriptor::data
RECURSIVE DataBufferPtrs(_, _, _, _)
DataBufferPtrs(ptrs, i, addr, remaining) ==
    IF i >= 5 \/ remaining = 0 THEN ptrs
    ELSE LET page_offset == addr % 4096
             this_page == IF 4096 - page_offset < remaining
                          THEN 4096 - page_offset ELSE remaining
         IN  DataBufferPtrs([ptrs EXCEPT ![i + 1] = ToU32(addr)], i + 1,
                            addr + this_page, remaining - this_page)

\* QueueTransferDescriptor::data(buffer, length, is_in, data_toggle)
QtdData(buffer, length, is_in, data_toggle) ==
    [QtdDefault EXCEPT
        !.next_qtd = ToU32(1),
        !.alt_qtd = ToU32(1),
        !.token = U32(BitOr(length % 32768, TokenToggle(data_toggle)),
                      BitOr(BitOr(IF is_in THEN PID_IN ELSE PID_OUT, TOKEN_ACTIVE),
                            TOKEN_CERR3)),
        !.buffer_ptrs = DataBufferPtrs(QtdDefault.buffer_ptrs, 0, buffer, length)]

\* a STATUS qTD without Interrupt-on-Complete
QtdStatus_NoIoc(is_in) ==
    [QtdDefault EXCEPT
        !.next_qtd = ToU32(1),
        !.alt_qtd = ToU32(1),
        !.token = U32(TokenToggle(TRUE),
                      BitOr(BitOr(IF is_in THEN PID_IN ELSE PID_OUT, TOKEN_ACTIVE),
                            TOKEN_CERR3))]

\* QueueTransferDescriptor::status(is_in)
QtdStatus(is_in) ==
    [QtdDefault EXCEPT
        !.next_qtd = ToU32(1),
        !.alt_qtd = ToU32(1),
        !.token = U32(TokenToggle(TRUE),
                      BitOr(BitOr(BitOr(IF is_in THEN PID_IN ELSE PID_OUT, TOKEN_ACTIVE),
                                  TOKEN_CERR3), TOKEN_IOC))]

\* QueueTransferDescriptor::is_complete, on a token read from memory
\* a completion test that does not look at the Active bit
is_complete_Always(token) == TRUE

is_complete(token) == BitAnd(Lo16(token), TOKEN_ACTIVE) = 0

\* QueueTransferDescriptor::has_error
has_error(token) == BitAnd(Lo16(token), TOKEN_ERROR_MASK) # 0

\* token & TOKEN_HALTED != 0
is_halted(token) == BitAnd(Lo16(token), TOKEN_HALTED) # 0

\* (token >> 16) & 0x7FFF
TokenTotalBytes(token) == Hi16(token) % 32768

\* (token >> 31) != 0
TokenDt(token) == Hi16(token) \div 32768 # 0

\* QueueTransferDescriptor::bytes_transferred(original_length)
bytes_transferred_NoResidual(token, original_length) == original_length

bytes_transferred(token, original_length) ==
    LET remaining == TokenTotalBytes(token)
    IN  IF original_length >= remaining THEN original_length - remaining ELSE 0

(***************************************************************************)
(* QueueHead                                                               *)
(***************************************************************************)
\* QueueHead::new(device_addr, endpoint, max_packet, speed, is_control)
QueueHeadNew(device_addr, endpoint, max_packet, speed, is_control) ==
    LET c0 == BitAnd(device_addr, 127)
        c1 == BitOr(c0, BitAnd(endpoint, 15) * 256)
        c2 == BitOr(c1, CASE speed = "Low" -> 4096
                          [] speed = "Full" -> 0
                          [] OTHER -> 8192)
        c3 == IF is_control /\ speed # "High" THEN BitOr(c2, 134217728) ELSE c2
        c4 == BitOr(c3, BitAnd(max_packet, 2047) * 65536)
        c5 == IF is_control THEN BitOr(c4, 16384) ELSE c4
        caps == IF speed # "High" THEN BitOr(1073741824, 28) ELSE 1073741824
    IN  [horiz_link_ptr |-> ToU32(1),
         ep_chars |-> ToU32(c5),
         ep_caps |-> ToU32(caps),
         cur_qtd |-> ToU32(0),
         overlay |-> [QtdDefault EXCEPT !.next_qtd = ToU32(1),
                                        !.alt_qtd = ToU32(1),
                                        !.token = ToU32(0)]]

\* the bytes of a whole-record store of a QH (padding stored as zero)
QhImage(qh) ==
    qh.horiz_link_ptr \o qh.ep_chars \o qh.ep_caps \o qh.cur_qtd
        \o Zeros(QH_overlay - 16) \o QtdImage(qh.overlay)

(***************************************************************************)
(* State.                                                                  *)
(*   mem           memory, byte by byte, over Addrs                        *)
(*   opreg         the operational registers, by offset                    *)
(*   devices       EhciController::devices, slot -> Option<EhciDevice>     *)
(*   next_address  EhciController::next_address                            *)
(*   pc            where the driver is: "idle" between calls, else the     *)
(*                 loop of the call in progress                            *)
(*   call          the arguments of the call in progress (or of the last   *)
(*                 one), what it found on entry (the head's link, the      *)
(*                 device table, the toggle it read) and whether its wait  *)
(*                 loop ended by expiry                                    *)
(*   buf           the caller's data buffer                                *)
(*   result        what the last call returned ("none" while one runs)     *)
(*   calls         number of calls made                                    *)
(*   log           the register writes and ring operations of the call in  *)
(*                 progress, in program order                              *)
(*   hw            what the host controller did: the bytes it stored for   *)
(*                 the IN qTD of the transfer, and its faults so far       *)
(*   lastInit      per device address and direction, the initial toggle of *)
(*                 the last successful bulk transfer (-1: none yet)        *)
(***************************************************************************)
VARIABLES mem, opreg, devices, next_address, pc, call, buf, result, calls, log, hw,
          lastInit

vars == <<mem, opreg, devices, next_address, pc, call, buf, result, calls, log, hw,
          lastInit>>

Ok(n) == [ok |-> TRUE, n |-> n, err |-> ""]
Err(e) == [ok |-> FALSE, n |-> 0, err |-> e]
NoResult == Err("none")

\* a log entry: a register write, or a ring operation (reg and val 0)
LogWrite(offset, value) == [e |-> "write", reg |-> offset, val |-> value]
LogOp(name) == [e |-> name, reg |-> 0, val |-> 0]

(***************************************************************************)
(* Registers.  read_op_reg returns the register; write_op_reg stores the   *)
(* value, except that USBSTS is write-one-to-clear in the controller.      *)
(***************************************************************************)
OpRegs == {USBCMD, USBSTS, USBINTR, CTRLDSSEGMENT, PERIODICLISTBASE, ASYNCLISTADDR,
           CONFIGFLAG}

read_op_reg(regs, offset) == regs[offset]

write_op_reg(regs, offset, value) ==
    IF offset = USBSTS
    THEN [regs EXCEPT ![USBSTS] = BitClear(regs[USBSTS], value)]
    ELSE [regs EXCEPT ![offset] = value]

(***************************************************************************)
(* The device table.                                                       *)
(***************************************************************************)
Slots == 0 .. MAX_DEVICES - 1

\* get_device / get_device_mut: the first occupied slot holding the address
SlotOf(devs, address) ==
    LET hits == {s \in Slots : IsSome(devs[s]) /\ Unwrap(devs[s]).address = address}
    IN  IF hits = {} THEN -1 ELSE CHOOSE s \in hits : \A t \in hits : s <= t

\* a lookup that takes the first occupied slot, whatever its address
get_device_Any(devs, address) ==
    IF \E s \in Slots : IsSome(devs[s])
    THEN devs[CHOOSE s \in Slots : IsSome(devs[s]) /\ \A t \in Slots :
                                                          IsSome(devs[t]) => s <= t]
    ELSE None

get_device(devs, address) ==
    IF SlotOf(devs, address) = -1 THEN None ELSE devs[SlotOf(devs, address)]

(***************************************************************************)
(* Async schedule: the splice behind the permanent head and its reversal.  *)
(***************************************************************************)
HeadLink(m) == Read32(m, AsyncQh + QH_horiz_link_ptr)

\* qh.horiz_link_ptr = head_qh.horiz_link_ptr; fence;
\* head_qh.horiz_link_ptr = (qh_addr as u32) | 2; fence
\* an insertion that leaves the new QH's own link as QueueHead::new set it
InsertQh_NoLinkCopy(m, qh_addr) ==
    Write32(m, AsyncQh + QH_horiz_link_ptr, ToU32(BitOr(qh_addr, 2)))

InsertQh(m, qh_addr) ==
    LET m1 == Write32(m, qh_addr + QH_horiz_link_ptr, HeadLink(m))
    IN  Write32(m1, AsyncQh + QH_horiz_link_ptr, ToU32(BitOr(qh_addr, 2)))

\* a removal that leaves the head's link alone
RemoveQh_Skip(m, qh_addr) == m

\* head_qh.horiz_link_ptr = qh.horiz_link_ptr; fence
RemoveQh(m, qh_addr) ==
    Write32(m, AsyncQh + QH_horiz_link_ptr, Read32(m, qh_addr + QH_horiz_link_ptr))

(***************************************************************************)
(* EhciController::init, the part that sets up the permanent head          *)
(* (the page was zeroed by EhciController::new) and programs the registers.*)
(***************************************************************************)
InitHead(m) ==
    LET m1 == Write32(m, AsyncQh + QH_horiz_link_ptr, ToU32(BitOr(AsyncQh, 2)))
        m2 == Write32(m1, AsyncQh + QH_ep_chars, ToU32(32768))
        m3 == Write32(m2, AsyncQh + QH_overlay + QTD_next_qtd, ToU32(1))
        m4 == Write32(m3, AsyncQh + QH_overlay + QTD_alt_qtd, ToU32(1))
    IN  Write32(m4, AsyncQh + QH_overlay + QTD_token, ToU32(0))

\* the registers once init has returned Ok: the values init wrote, the
\* controller running with its async schedule on
InitRegs ==
    [r \in OpRegs |->
        CASE r = USBCMD -> BitOr(BitOr(BitOr(RS, ASE), FLS_1024), ITC_8)
          [] r = USBSTS -> ASS
          [] r = USBINTR -> 0
          [] r = CTRLDSSEGMENT -> 0
          [] r = PERIODICLISTBASE -> PeriodicList
          [] r = ASYNCLISTADDR -> AsyncQh
          [] r = CONFIGFLAG -> 1]

(***************************************************************************)
(* control_transfer_internal, up to the insertion into the async list.     *)
(***************************************************************************)
\* qtd_count: 2 with a data stage, else 1
QtdCount(data_len) == IF data_len > 0 THEN 2 ELSE 1
CtlSetupQtd == CtlQtdBase
CtlDataQtd == CtlQtdBase + 32
CtlStatusQtd(data_len) == CtlQtdBase + QtdCount(data_len) * 32

CtlSubmit(m, device, request_type, request, value, index, data) ==
    LET is_in == BitAnd(request_type, 128) # 0
        data_len == IF IsSome(data) THEN Len(Unwrap(data)) ELSE 0
        \* setup packet in the DMA buffer
        m1 == WriteBytes(m, DmaBuffer,
                  <<request_type, request, value % 256, (value \div 256) % 256,
                    index % 256, (index \div 256) % 256,
                    data_len % 256, (data_len \div 256) % 256>>)
        \* copy data to the DMA buffer for OUT transfers
        m2 == IF IsSome(data) /\ ~is_in
              THEN WriteBytes(m1, CtlDataBuffer, Unwrap(data)) ELSE m1
        \* *qh = QueueHead::new(...)
        m3 == WriteBytes(m2, CtlQhAddr,
                  QhImage(QueueHeadNew(device.address, 0, device.ep0_max_packet,
                                       device.speed, TRUE)))
        \* *setup_qtd = QueueTransferDescriptor::setup(...)
        m4 == WriteBytes(m3, CtlSetupQtd, QtdImage(QtdSetup(DmaBuffer, FALSE)))
        \* the data stage
        m5 == IF data_len > 0
              THEN Write32(WriteBytes(m4, CtlDataQtd,
                               QtdImage(QtdData(CtlDataBuffer, data_len, is_in, TRUE))),
                           CtlSetupQtd + QTD_next_qtd, ToU32(CtlDataQtd))
              ELSE m4
        \* *status_qtd = QueueTransferDescriptor::status(!is_in || data_len == 0)
        m6 == WriteBytes(m5, CtlStatusQtd(data_len),
                  QtdImage(QtdStatus(~is_in \/ data_len = 0)))
        m7 == IF data_len > 0
              THEN Write32(m6, CtlDataQtd + QTD_next_qtd, ToU32(CtlStatusQtd(data_len)))
              ELSE Write32(m6, CtlSetupQtd + QTD_next_qtd, ToU32(CtlStatusQtd(data_len)))
        \* qh.overlay.next_qtd = qtd_base; qh.cur_qtd = 0
        m8 == Write32(m7, CtlQhAddr + QH_overlay + QTD_next_qtd, ToU32(CtlQtdBase))
        m9 == Write32(m8, CtlQhAddr + QH_cur_qtd, ToU32(0))
    IN  InsertQh(m9, CtlQhAddr)

(***************************************************************************)
(* control_transfer_internal, after the doorbell wait: the error checks    *)
(* and the copy-back.  c is the call, b the caller's buffer.               *)
(***************************************************************************)
\* ptr::copy_nonoverlapping(src, d.as_mut_ptr(), n)
CopyBack(m, src, b, n) ==
    [i \in 1..Len(b) |-> IF i <= n THEN m[src + i - 1] ELSE b[i]]

CtlFinish(m, c, b) ==
    LET status_tok == Read32(m, CtlStatusQtd(c.len) + QTD_token)
        setup_tok == Read32(m, CtlSetupQtd + QTD_token)
        transferred == bytes_transferred(Read32(m, CtlDataQtd + QTD_token), c.len)
    IN  IF ~is_complete(status_tok)
        THEN [result |-> Err("Timeout"), buf |-> b]
        ELSE IF has_error(status_tok) \/ has_error(setup_tok)
        THEN IF is_halted(status_tok)
             THEN [result |-> Err("Stall"), buf |-> b]
             ELSE [result |-> Err("TransactionError"), buf |-> b]
        ELSE IF c.has_data /\ c.is_in
        THEN [result |-> Ok(transferred),
              buf |-> CopyBack(m, CtlDataBuffer, b, transferred)]
        ELSE [result |-> Ok(c.len), buf |-> b]

(***************************************************************************)
(* bulk_transfer, up to the insertion into the async list.                 *)
(***************************************************************************)
BulkSubmit(m, dev, endpoint, is_in, data, max_packet, toggle) ==
    LET \* copy data for OUT
        m1 == IF ~is_in THEN WriteBytes(m, BulkDataBuffer, data) ELSE m
        \* *qh = QueueHead::new(dev.address, endpoint, max_packet, dev.speed, false)
        m2 == WriteBytes(m1, BulkQhAddr,
                  QhImage(QueueHeadNew(dev.address, endpoint, max_packet, dev.speed,
                                       FALSE)))
        \* *qtd = QueueTransferDescriptor::data(...); qtd.token |= 1 << 15
        m3 == WriteBytes(m2, BulkQtdAddr,
                  QtdImage(QtdData(BulkDataBuffer, Len(data), is_in, toggle)))
        tok == Read32(m3, BulkQtdAddr + QTD_token)
        m4 == Write32(m3, BulkQtdAddr + QTD_token,
                  U32(Hi16(tok), BitOr(Lo16(tok), TOKEN_IOC)))
        \* qh.overlay.next_qtd = qtd_addr; qh.cur_qtd = 0
        m5 == Write32(m4, BulkQhAddr + QH_overlay + QTD_next_qtd, ToU32(BulkQtdAddr))
        m6 == Write32(m5, BulkQhAddr + QH_cur_qtd, ToU32(0))
    IN  InsertQh(m6, BulkQhAddr)

(***************************************************************************)
(* bulk_transfer, after the unlink: the checks, the toggle update and the  *)
(* copy-back.                                                              *)
(***************************************************************************)
\* dev.bulk_in_toggle = !new_toggle / dev.bulk_out_toggle = !new_toggle
UpdateToggle(devs, device, is_in, token) ==
    LET s == SlotOf(devs, device)
        new_toggle == TokenDt(token)
    IN  IF s = -1 THEN devs
        ELSE IF is_in
        THEN [devs EXCEPT ![s] = Some([Unwrap(devs[s]) EXCEPT !.bulk_in_toggle = ~new_toggle])]
        ELSE [devs EXCEPT ![s] = Some([Unwrap(devs[s]) EXCEPT !.bulk_out_toggle = ~new_toggle])]

\* checks that update the toggle as soon as the qTD is complete, error or not
BulkFinish_ToggleFirst(m, devs, c, b) ==
    LET tok == Read32(m, BulkQtdAddr + QTD_token)
        transferred == bytes_transferred(tok, Len(b))
        devs1 == UpdateToggle(devs, c.device, c.is_in, tok)
    IN  IF BitAnd(Lo16(tok), TOKEN_ACTIVE) # 0
        THEN [result |-> Err("Timeout"), buf |-> b, devices |-> devs]
        ELSE IF has_error(tok)
        THEN IF is_halted(tok)
             THEN [result |-> Err("Stall"), buf |-> b, devices |-> devs1]
             ELSE [result |-> Err("TransactionError"), buf |-> b, devices |-> devs1]
        ELSE [result |-> Ok(transferred),
              buf |-> IF c.is_in THEN CopyBack(m, BulkDataBuffer, b, transferred) ELSE b,
              devices |-> devs1]

BulkFinish(m, devs, c, b) ==
    LET tok == Read32(m, BulkQtdAddr + QTD_token)
        transferred == bytes_transferred(tok, Len(b))
    IN  IF ~is_complete(tok)
        THEN [result |-> Err("Timeout"), buf |-> b, devices |-> devs]
        ELSE IF has_error(tok)
        THEN IF is_halted(tok)
             THEN [result |-> Err("Stall"), buf |-> b, devices |-> devs]
             ELSE [result |-> Err("TransactionError"), buf |-> b, devices |-> devs]
        ELSE [result |-> Ok(transferred),
              buf |-> IF c.is_in THEN CopyBack(m, BulkDataBuffer, b, transferred) ELSE b,
              devices |-> UpdateToggle(devs, c.device, c.is_in, tok)]

(***************************************************************************)
(* The host controller.  While it runs with the async schedule on, it      *)
(* follows the head's horizontal link to the QH behind it and executes the *)
(* first Active qTD of that QH's chain; a Halted qTD stops the queue.      *)
(***************************************************************************)
\* a link or qTD pointer: bits 31..5 are the address, bit 0 terminates
PtrAddr(w) == FromU32(w) - (FromU32(w) % 32)
PtrTerminate(w) == w[1] % 2 = 1

HwRunning(regs) == BitAnd(regs[USBCMD], RS) # 0 /\ BitAnd(regs[USBCMD], ASE) # 0

\* the QH the controller finds behind the head (the head itself: none)
HwLinkedQh(m) == PtrAddr(HeadLink(m))

RECURSIVE HwFirstActive(_, _, _)
HwFirstActive(m, ptr, fuel) ==
    IF fuel = 0 \/ PtrTerminate(ptr) \/ PtrAddr(ptr) \notin Addrs THEN 0
    ELSE LET a == PtrAddr(ptr)
             tok == Read32(m, a + QTD_token)
         IN  IF ~is_complete(tok) THEN a
             ELSE IF is_halted(tok) THEN 0
             ELSE CHOOSE q \in {HwFirstActive(m, next, fuel - 1) :
                                   next \in {Read32(m, a + QTD_next_qtd)}} : TRUE

\* the qTD the controller executes next (0: none)
HwActiveQtd(m) ==
    IF HwLinkedQh(m) = AsyncQh THEN 0
    ELSE HwFirstActive(m, Read32(m, HwLinkedQh(m) + QH_overlay + QTD_next_qtd), 4)

\* the status bits a retired qTD can carry: none; Halted (STALL); a
\* transaction error that was retried with success (the bit stays set)
HwStatusOutcomes == {0, TOKEN_HALTED, TOKEN_XACT_ERROR}

\* the bytes a device sends: byte i of a stage is 16 + i
DevBytes(n) == [i \in 1..n |-> 16 + i]

\* A timeout expires.  When the controller still had work it could finish
\* (pending), it was late, which counts as a fault; when it had none (the
\* queue halted, or nothing left to execute) the expiry is the only way on.
HwLate(pending) ==
    IF pending
    THEN hw.faults < MaxFaults /\ hw' = [hw EXCEPT !.faults = hw.faults + 1]
    ELSE hw' = hw

(***************************************************************************)
(* The state EhciController::new returns: the head installed, the          *)
(* registers programmed, and the device table an enumeration pass leaves   *)
(* (a mass-storage device at address 1 with both bulk endpoints, a HID     *)
(* keyboard at address 2 with none; toggles false as EhciDevice::new sets  *)
(* them).  new() does not clear the DMA region; no byte of it is read      *)
(* before the call that reads it has written it, and the model starts it   *)
(* as zero.                                                                *)
(***************************************************************************)

EndpointInfo(number, max_packet_size) ==
    [number |-> number, max_packet_size |-> max_packet_size]

EnumeratedDevices ==
    [s \in Slots |->
        CASE s = 0 -> Some([address |-> 1, port |-> 0, speed |-> "High",
                            is_mass_storage |-> TRUE, is_hid_keyboard |-> FALSE,
                            bulk_in |-> Some(EndpointInfo(1, 512)),
                            bulk_out |-> Some(EndpointInfo(2, 512)),
                            interrupt_in |-> None,
                            ep0_max_packet |-> 64,
                            bulk_in_toggle |-> FALSE, bulk_out_toggle |-> FALSE])
          [] s = 1 -> Some([address |-> 2, port |-> 1, speed |-> "High",
                            is_mass_storage |-> FALSE, is_hid_keyboard |-> TRUE,
                            bulk_in |-> None,
                            bulk_out |-> None,
                            interrupt_in |-> Some(EndpointInfo(1, 8)),
                            ep0_max_packet |-> 8,
                            bulk_in_toggle |-> FALSE, bulk_out_toggle |-> FALSE])
          [] OTHER -> None]

\* The arguments callers pass.  Device addresses: the storage device, the
\* keyboard, and an address no device has.
DeviceArgs == {1, 2, 9}
CallerBuf(n) == [i \in 1..n |-> 160 + i]
DataLens == {0, MaxLen}
\* control requests: GET_DESCRIPTOR(device) into a buffer, SET_CONFIGURATION(1)
\* without data, and a vendor OUT request with a data stage, to the storage
\* device; GET_DESCRIPTOR to the address no device has
ControlArgs ==
    {[device |-> 1, request_type |-> 128, request |-> 6, value |-> 256, index |-> 0,
      data |-> Some(CallerBuf(n))] : n \in DataLens}
    \cup {[device |-> 1, request_type |-> 0, request |-> 9, value |-> 1, index |-> 0,
            data |-> None],
           [device |-> 1, request_type |-> 64, request |-> 1, value |-> 0, index |-> 0,
            data |-> Some(CallerBuf(MaxLen))],
           [device |-> 9, request_type |-> 128, request |-> 6, value |-> 256, index |-> 0,
            data |-> Some(CallerBuf(MaxLen))]}
\* bulk requests: to the storage device IN on endpoint 1 and OUT on endpoint
\* 2, as it records them, and OUT on endpoint 1; IN to the keyboard and to
\* the address no device has
BulkArgs ==
    {[device |-> 1, endpoint |-> 1, is_in |-> TRUE, data |-> CallerBuf(n)] :
        n \in DataLens}
    \cup {[device |-> 1, endpoint |-> e, is_in |-> FALSE, data |-> CallerBuf(MaxLen)] :
            e \in {1, 2}}
    \cup {[device |-> d, endpoint |-> 1, is_in |-> TRUE, data |-> CallerBuf(MaxLen)] :
            d \in {2, 9}}

NoCall ==
    [op |-> "none", device |-> 0, endpoint |-> 0, is_in |-> FALSE, has_data |-> FALSE,
     len |-> 0, data0 |-> <<>>, toggle |-> FALSE, inserted |-> FALSE,
     expired |-> FALSE, headBefore |-> ToU32(0), devices0 |-> EnumeratedDevices,
     prevInit |-> -1]

NoHw == [bytes |-> <<>>, faults |-> 0]

Init ==
    /\ mem = InitHead([a \in Addrs |-> 0])
    /\ opreg = InitRegs
    /\ devices = EnumeratedDevices
    /\ next_address = 3
    /\ pc = "idle"
    /\ call = NoCall
    /\ buf = <<>>
    /\ result = NoResult
    /\ calls = 0
    /\ log = <<>>
    /\ hw = NoHw
    /\ lastInit = [k \in DeviceArgs \X BOOLEAN |-> -1]

(***************************************************************************)
(* UsbController::control_transfer                                         *)
(***************************************************************************)
ControlTransfer(device, request_type, request, value, index, data) ==
    /\ pc = "idle"
    /\ calls < MaxCalls
    /\ calls' = calls + 1
    /\ buf' = IF IsSome(data) THEN Unwrap(data) ELSE <<>>
    /\ log' = IF IsSome(get_device(devices, device)) THEN <<LogOp("insert")>> ELSE <<>>
    /\ hw' = [hw EXCEPT !.bytes = <<>>]
    /\ call' = [NoCall EXCEPT
                  !.op = "control", !.device = device,
                  !.is_in = BitAnd(request_type, 128) # 0,
                  !.has_data = IsSome(data),
                  !.len = IF IsSome(data) THEN Len(Unwrap(data)) ELSE 0,
                  !.data0 = IF IsSome(data) THEN Unwrap(data) ELSE <<>>,
                  !.inserted = IsSome(get_device(devices, device)),
                  !.headBefore = HeadLink(mem),
                  !.devices0 = devices]
    /\ IF IsSome(get_device(devices, device))
       THEN /\ mem' = CtlSubmit(mem, Unwrap(get_device(devices, device)),
                                request_type, request, value, index, data)
            /\ pc' = "ctl_wait"
            /\ result' = NoResult
       ELSE /\ result' = Err("DeviceNotFound")
            /\ UNCHANGED <<mem, pc>>
    /\ UNCHANGED <<opreg, devices, next_address, lastInit>>

\* remove the QH from the async list and ring the doorbell
CtlUnlink ==
    /\ mem' = RemoveQh(mem, CtlQhAddr)
    /\ opreg' = write_op_reg(opreg, USBCMD, BitOr(read_op_reg(opreg, USBCMD), IAAD))
    /\ log' = log \o <<LogOp("unlink"),
                       LogWrite(USBCMD, BitOr(read_op_reg(opreg, USBCMD), IAAD)),
                       LogOp("iaa_wait")>>
    /\ pc' = "ctl_iaa_wait"
    /\ UNCHANGED <<devices, next_address, call, buf, result, calls, hw, lastInit>>

\* the wait loop sees the STATUS qTD complete and breaks; the removal follows
CtlWaitDone ==
    /\ pc = "ctl_wait"
    /\ is_complete(Read32(mem, CtlStatusQtd(call.len) + QTD_token))
    /\ CtlUnlink

\* a wait loop without a timeout: nothing but the completed STATUS qTD ends
\* it
CtlWaitExpire_NoTimeout ==
    /\ pc = "ctl_wait"
    /\ FALSE
    /\ UNCHANGED vars

\* timeout.is_expired() ends the wait loop with the STATUS qTD not seen
\* complete
CtlWaitExpire ==
    /\ pc = "ctl_wait"
    /\ ~is_complete(Read32(mem, CtlStatusQtd(call.len) + QTD_token))
    /\ HwLate(HwRunning(opreg) /\ HwActiveQtd(mem) # 0)
    /\ pc' = "ctl_expired"
    /\ call' = [call EXCEPT !.expired = TRUE]
    /\ UNCHANGED <<mem, opreg, devices, next_address, buf, result, calls, log, lastInit>>

\* the removal after the expired wait
CtlRemove ==
    /\ pc = "ctl_expired"
    /\ CtlUnlink

\* a doorbell branch that keeps a toggle for the data stage the way
\* bulk_transfer does: a control transfer that moved data stores the data
\* qTD's toggle in the device record
CtlIaaSeen_StoresToggle ==
    /\ pc = "ctl_iaa_wait"
    /\ BitAnd(read_op_reg(opreg, USBSTS), IAA) # 0
    /\ opreg' = write_op_reg(opreg, USBSTS, IAA)
    /\ log' = Append(log, LogWrite(USBSTS, IAA))
    /\ result' = CtlFinish(mem, call, buf).result
    /\ buf' = CtlFinish(mem, call, buf).buf
    /\ devices' = IF CtlFinish(mem, call, buf).result.ok /\ call.has_data
                  THEN UpdateToggle(devices, call.device, call.is_in,
                                    Read32(mem, CtlDataQtd + QTD_token))
                  ELSE devices
    /\ pc' = "idle"
    /\ UNCHANGED <<mem, next_address, call, calls, hw, lastInit>>

\* the doorbell loop sees USBSTS.IAA, acknowledges it and breaks; then the
\* checks and the copy-back
CtlIaaSeen ==
    /\ pc = "ctl_iaa_wait"
    /\ BitAnd(read_op_reg(opreg, USBSTS), IAA) # 0
    /\ opreg' = write_op_reg(opreg, USBSTS, IAA)
    /\ log' = Append(log, LogWrite(USBSTS, IAA))
    /\ result' = CtlFinish(mem, call, buf).result
    /\ buf' = CtlFinish(mem, call, buf).buf
    /\ pc' = "idle"
    /\ UNCHANGED <<mem, devices, next_address, call, calls, hw, lastInit>>

\* timeout.is_expired() ends the doorbell loop; then the checks and the
\* copy-back
CtlIaaExpire ==
    /\ pc = "ctl_iaa_wait"
    /\ BitAnd(read_op_reg(opreg, USBSTS), IAA) = 0
    /\ HwLate(HwRunning(opreg))
    /\ result' = CtlFinish(mem, call, buf).result
    /\ buf' = CtlFinish(mem, call, buf).buf
    /\ pc' = "idle"
    /\ UNCHANGED <<mem, opreg, devices, next_address, call, calls, log, lastInit>>

(***************************************************************************)
(* UsbController::bulk_transfer                                            *)
(***************************************************************************)
BulkEndpoint(dev, is_in) == IF is_in THEN dev.bulk_in ELSE dev.bulk_out
BulkToggle(dev, is_in) == IF is_in THEN dev.bulk_in_toggle ELSE dev.bulk_out_toggle

BulkTransfer(device, endpoint, is_in, data) ==
    /\ pc = "idle"
    /\ calls < MaxCalls
    /\ calls' = calls + 1
    /\ buf' = data
    /\ hw' = [hw EXCEPT !.bytes = <<>>]
    /\ LET dev == get_device(devices, device)
           ep_info == IF IsSome(dev) THEN BulkEndpoint(Unwrap(dev), is_in) ELSE None
           go == IsSome(dev) /\ IsSome(ep_info)
       IN  /\ call' = [NoCall EXCEPT
                         !.op = "bulk", !.device = device, !.endpoint = endpoint,
                         !.is_in = is_in, !.has_data = TRUE, !.len = Len(data),
                         !.data0 = data,
                         !.toggle = IF go THEN BulkToggle(Unwrap(dev), is_in) ELSE FALSE,
                         !.inserted = go,
                         !.headBefore = HeadLink(mem),
                         !.devices0 = devices,
                         !.prevInit = lastInit[<<device, is_in>>]]
           /\ log' = IF go THEN <<LogOp("insert")>> ELSE <<>>
           /\ IF go
              THEN /\ mem' = BulkSubmit(mem, Unwrap(dev), endpoint, is_in, data,
                                        Unwrap(ep_info).max_packet_size,
                                        BulkToggle(Unwrap(dev), is_in))
                   /\ pc' = "bulk_wait"
                   /\ result' = NoResult
              ELSE /\ result' = IF IsSome(dev) THEN Err("InvalidParameter")
                                ELSE Err("DeviceNotFound")
                   /\ UNCHANGED <<mem, pc>>
    /\ UNCHANGED <<opreg, devices, next_address, lastInit>>

\* remove the QH from the list, then the checks, the toggle update and the
\* copy-back
BulkUnlink ==
    /\ mem' = RemoveQh(mem, BulkQhAddr)
    /\ log' = Append(log, LogOp("unlink"))
    /\ result' = BulkFinish(mem', devices, call, buf).result
    /\ buf' = BulkFinish(mem', devices, call, buf).buf
    /\ devices' = BulkFinish(mem', devices, call, buf).devices
    /\ lastInit' = IF BulkFinish(mem', devices, call, buf).result.ok
                   THEN [lastInit EXCEPT ![<<call.device, call.is_in>>] =
                            IF call.toggle THEN 1 ELSE 0]
                   ELSE lastInit
    /\ pc' = "idle"
    /\ UNCHANGED <<opreg, next_address, call, calls, hw>>

\* the wait loop sees the qTD complete and breaks; the removal follows
BulkWaitDone ==
    /\ pc = "bulk_wait"
    /\ is_complete(Read32(mem, BulkQtdAddr + QTD_token))
    /\ BulkUnlink

\* timeout.is_expired() ends the wait loop with the qTD not seen complete
BulkWaitExpire ==
    /\ pc = "bulk_wait"
    /\ ~is_complete(Read32(mem, BulkQtdAddr + QTD_token))
    /\ HwLate(HwRunning(opreg) /\ HwActiveQtd(mem) # 0)
    /\ pc' = "bulk_expired"
    /\ call' = [call EXCEPT !.expired = TRUE]
    /\ UNCHANGED <<mem, opreg, devices, next_address, buf, result, calls, log, lastInit>>

\* the removal after the expired wait
BulkRemove ==
    /\ pc = "bulk_expired"
    /\ BulkUnlink

(***************************************************************************)
(* The host controller's steps.                                            *)
(***************************************************************************)
\* the residual byte counts a retired qTD can report: all of it when the
\* qTD halted; for an IN nothing left or a transfer one byte short; nothing
\* left for an OUT or SETUP
HwResiduals(tok, status) ==
    IF BitAnd(status, TOKEN_HALTED) # 0 THEN {TokenTotalBytes(tok)}
    ELSE IF BitAnd(Lo16(tok), 768) = PID_IN THEN {0, 1} \cap (0 .. TokenTotalBytes(tok))
    ELSE {0}

\* the toggle bit the controller writes back: behind a QH with DTC set
\* (control) the qTD's own toggle advanced by its one packet; behind a QH
\* with DTC clear (bulk) the toggle the endpoint has reached
HwToggles(m, tok) ==
    IF BitAnd(Lo16(Read32(m, HwLinkedQh(m) + QH_ep_chars)), 16384) # 0
    THEN {~TokenDt(tok)}
    ELSE BOOLEAN

\* the controller retires the qTD at a: Active cleared, the status bits, the
\* residual and the toggle written back to the token, and for an IN the
\* received bytes stored through the first buffer pointer
HwRetire(m, a, status, residual, dt) ==
    LET tok == Read32(m, a + QTD_token)
        n == TokenTotalBytes(tok) - residual
        m1 == Write32(m, a + QTD_token,
                  U32(BitOr(residual, TokenToggle(dt)),
                      BitOr(BitClear(Lo16(tok), TOKEN_ACTIVE), status)))
    IN  IF BitAnd(Lo16(tok), 768) = PID_IN /\ n > 0
        THEN WriteBytes(m1, FromU32(Read32(m, a + QTD_buffer_ptrs)), DevBytes(n))
        ELSE m1

HwCompleteQtd ==
    /\ HwRunning(opreg)
    /\ HwActiveQtd(mem) # 0
    /\ LET a == HwActiveQtd(mem)
           tok == Read32(mem, a + QTD_token)
       IN  \E status \in HwStatusOutcomes :
           \E residual \in HwResiduals(tok, status) :
           \E dt \in HwToggles(mem, tok) :
              /\ status # 0 => hw.faults < MaxFaults
              /\ mem' = HwRetire(mem, a, status, residual, dt)
              /\ hw' = [bytes |-> IF BitAnd(Lo16(tok), 768) = PID_IN
                                     /\ TokenTotalBytes(tok) - residual > 0
                                  THEN DevBytes(TokenTotalBytes(tok) - residual)
                                  ELSE hw.bytes,
                        faults |-> IF status # 0 THEN hw.faults + 1 ELSE hw.faults]
    /\ UNCHANGED <<opreg, devices, next_address, pc, call, buf, result, calls, log,
                   lastInit>>

\* the controller answers the doorbell: USBSTS.IAA set, USBCMD.IAAD cleared
HwAsyncAdvance ==
    /\ HwRunning(opreg)
    /\ BitAnd(opreg[USBCMD], IAAD) # 0
    /\ opreg' = [opreg EXCEPT ![USBCMD] = BitClear(opreg[USBCMD], IAAD),
                              ![USBSTS] = BitOr(opreg[USBSTS], IAA)]
    /\ UNCHANGED <<mem, devices, next_address, pc, call, buf, result, calls, log, hw,
                   lastInit>>

Next ==
    \/ \E a \in ControlArgs :
          ControlTransfer(a.device, a.request_type, a.request, a.value, a.index, a.data)
    \/ CtlWaitDone
    \/ CtlWaitExpire
    \/ CtlRemove
    \/ CtlIaaSeen
    \/ CtlIaaExpire
    \/ \E a \in BulkArgs : BulkTransfer(a.device, a.endpoint, a.is_in, a.data)
    \/ BulkWaitDone
    \/ BulkWaitExpire
    \/ BulkRemove
    \/ HwCompleteQtd
    \/ HwAsyncAdvance

Spec == Init /\ [][Next]_vars

(***************************************************************************)
(* Properties.  Returned means: the call has come back to the caller       *)
(* (pc = "idle"); Inserted: it got as far as linking a QH.                 *)
(***************************************************************************)
Returned == pc = "idle" /\ call.op # "none"
Inserted == call.inserted
Active(token) == BitAnd(Lo16(token), TOKEN_ACTIVE) # 0

\* the qTD tokens of the transfer of the last call, as memory holds them
SetupToken == Read32(mem, CtlSetupQtd + QTD_token)
DataToken == Read32(mem, CtlDataQtd + QTD_token)
StatusToken == Read32(mem, CtlStatusQtd(call.len) + QTD_token)
BulkToken == Read32(mem, BulkQtdAddr + QTD_token)
\* the qTD whose completion the call waits for
FinalToken == IF call.op = "control" THEN StatusToken ELSE BulkToken
CallTokens ==
    IF call.op = "bulk" THEN {BulkToken}
    ELSE IF call.len > 0 THEN {SetupToken, DataToken, StatusToken}
    ELSE {SetupToken, StatusToken}

\* C1: in every state, ASYNCLISTADDR holds the head's address and following
\* the horizontal links from the head comes back to the head: either the
\* head links to itself, or to the one transfer QH, whose link is the head.
C1_RingCircular ==
    /\ read_op_reg(opreg, ASYNCLISTADDR) = AsyncQh
    /\ \/ HwLinkedQh(mem) = AsyncQh
       \/ /\ HwLinkedQh(mem) \in {CtlQhAddr, BulkQhAddr}
          /\ PtrAddr(Read32(mem, HwLinkedQh(mem) + QH_horiz_link_ptr)) = AsyncQh

\* a QH is in the ring, in a call made after the hardware failed an earlier one
C1_Witness ==
    /\ pc \in {"ctl_wait", "bulk_wait"}
    /\ HwLinkedQh(mem) # AsyncQh
    /\ calls >= 2
    /\ hw.faults >= 1

\* C2: when a call that inserted a QH has returned, whatever it returned,
\* the head's horizontal link has the value it had before the insertion,
\* and that value points at the head.
C2_UnlinkedOnReturn ==
    Returned /\ Inserted =>
        /\ HeadLink(mem) = call.headBefore
        /\ HwLinkedQh(mem) = AsyncQh

\* a call that inserted a QH returned TransactionError
C2_Witness == Returned /\ Inserted /\ result = Err("TransactionError")

\* C3: a call that inserted a QH has, when it returns, written USBCMD with
\* IAAD set after the unlink and polled USBSTS.IAA after that.
C3_DoorbellOnRemoval ==
    Returned /\ Inserted =>
        \E i, j, k \in 1..Len(log) :
            /\ i < j /\ j < k
            /\ log[i].e = "unlink"
            /\ log[j].e = "write" /\ log[j].reg = USBCMD /\ BitAnd(log[j].val, IAAD) # 0
            /\ log[k].e = "iaa_wait"

\* C4: a control transfer whose qTDs all completed with no error bit: an IN
\* with a data stage returns L - r, the first L - r bytes of the caller's
\* buffer are the bytes the controller stored in the staging area and the
\* rest of the buffer is as the caller passed it; an OUT or a transfer
\* without data stage returns the requested length and leaves the buffer as
\* passed.
CtlAllClean ==
    \A t \in CallTokens : ~Active(t) /\ BitAnd(Lo16(t), TOKEN_ERROR_MASK) = 0

C4_ControlInCount ==
    Returned /\ Inserted /\ call.op = "control" /\ CtlAllClean =>
        IF call.is_in /\ call.len > 0
        THEN LET n == call.len - TokenTotalBytes(DataToken)
             IN  /\ result = Ok(n)
                 /\ Len(buf) = call.len
                 /\ hw.bytes = DevBytes(n)
                 /\ \A i \in 1..call.len :
                       buf[i] = IF i <= n THEN mem[CtlDataBuffer + i - 1] ELSE call.data0[i]
                 /\ \A i \in 1..n : buf[i] = hw.bytes[i]
        ELSE /\ result = Ok(call.len)
             /\ buf = call.data0

\* an IN control transfer of at least two bytes came back one byte short
C4_Witness ==
    /\ Returned /\ Inserted /\ call.op = "control" /\ CtlAllClean
    /\ call.is_in /\ call.len >= 2
    /\ TokenTotalBytes(DataToken) = 1
    /\ result = Ok(call.len - 1)

\* C5 as stated: a call whose wait loop ended by expiry, the awaited qTD
\* still Active at that moment, returns Timeout.
C5_TimeoutAtExpiry ==
    Returned /\ Inserted /\ call.expired => result = Err("Timeout")

\* C5, amended: a call that inserted a QH returns Timeout exactly when the
\* awaited qTD (STATUS, or the bulk qTD) is still Active when the call reads
\* it again after the removal; the token does not change after that.
C5_TimeoutAtRecheck ==
    Returned /\ Inserted => (result = Err("Timeout") <=> Active(FinalToken))

\* the wait loop expired and the call returned Timeout
C5_Witness == Returned /\ Inserted /\ call.expired /\ result = Err("Timeout")

\* C6: a call that returns Timeout has, before it returned, written a reset
\* request to the registers exactly once.  HCRESET is the reset bit of the
\* operational registers; the log holds every register write of the call.
ResetWrites ==
    {i \in 1..Len(log) :
        log[i].e = "write" /\ log[i].reg = USBCMD /\ BitAnd(log[i].val, HCRESET) # 0}

C6_ResetOnTimeout ==
    Returned /\ result = Err("Timeout") => Cardinality(ResetWrites) = 1

\* C7: a transfer that finished (its last qTD no longer Active): if one of
\* its qTDs has Halted set and no other error bit, the call returned Stall;
\* if none has Halted and one has another error bit, it returned
\* TransactionError.
HaltedOnly(token) == BitAnd(Lo16(token), TOKEN_ERROR_MASK) = TOKEN_HALTED
OtherErrorOnly(token) ==
    /\ BitAnd(Lo16(token), TOKEN_HALTED) = 0
    /\ BitAnd(Lo16(token), TOKEN_ERROR_MASK) # 0

C7_StallMapping ==
    Returned /\ Inserted /\ ~Active(FinalToken) =>
        /\ (\E t \in CallTokens : HaltedOnly(t)) => result = Err("Stall")
        /\ ((\A t \in CallTokens : BitAnd(Lo16(t), TOKEN_HALTED) = 0)
              /\ (\E t \in CallTokens : OtherErrorOnly(t)))
           => result = Err("TransactionError")

\* C8: from the entry of a bulk_transfer call on, the device table is as the
\* call found it, unless the call has returned Ok; then it differs from what
\* the call found at most in the toggle of the call's device and direction.
SameButToggle(d0, d1, device, is_in) ==
    \A s \in Slots :
        IF s = SlotOf(d0, device)
        THEN /\ IsSome(d1[s])
             /\ IF is_in
                THEN [Unwrap(d1[s]) EXCEPT !.bulk_in_toggle = FALSE]
                       = [Unwrap(d0[s]) EXCEPT !.bulk_in_toggle = FALSE]
                ELSE [Unwrap(d1[s]) EXCEPT !.bulk_out_toggle = FALSE]
                       = [Unwrap(d0[s]) EXCEPT !.bulk_out_toggle = FALSE]
        ELSE d1[s] = d0[s]

C8_ToggleKeptOnError ==
    call.op = "bulk" =>
        IF Returned /\ result.ok
        THEN SameButToggle(call.devices0, devices, call.device, call.is_in)
        ELSE devices = call.devices0

\* a bulk transfer returned Stall on a device whose toggles an earlier
\* transfer had changed
C8_Witness ==
    /\ Returned /\ call.op = "bulk" /\ result = Err("Stall")
    /\ devices = call.devices0
    /\ devices # EnumeratedDevices

\* C9: after a bulk transfer returned Ok, the toggle stored for its device
\* and direction is bit 31 of the completed qTD's token.
C9_StoredToggleIsTokenBit ==
    Returned /\ call.op = "bulk" /\ result.ok =>
        BulkToggle(Unwrap(get_device(devices, call.device)), call.is_in)
            = TokenDt(BulkToken)

\* C10: a bulk transfer that returned Ok, after an earlier one on the same
\* device and direction did: its initial toggle is the stored toggle it
\* found, and differs from the initial toggle of that earlier transfer.
C10_SuccessFlipsToggle ==
    Returned /\ call.op = "bulk" /\ result.ok /\ call.prevInit # -1 =>
        /\ call.toggle
             = BulkToggle(Unwrap(get_device(call.devices0, call.device)), call.is_in)
        /\ call.toggle # (call.prevInit = 1)

\* a step that is a call of control_transfer or bulk_transfer
IsCall == pc = "idle" /\ calls' = calls + 1
\* the call's device address is in no occupied slot
UnknownDevice == \A s \in Slots : IsSome(devices[s]) => Unwrap(devices[s]).address # call'.device
\* the call is a bulk_transfer to a device that records no bulk endpoint
\* for the direction asked
NoBulkEndpoint ==
    /\ call'.op = "bulk"
    /\ \E s \in Slots :
          /\ IsSome(devices[s]) /\ Unwrap(devices[s]).address = call'.device
          /\ (IF call'.is_in THEN Unwrap(devices[s]).bulk_in
              ELSE Unwrap(devices[s]).bulk_out) = None
Rejected(e) ==
    /\ result' = Err(e)
    /\ pc' = "idle"
    /\ ~call'.inserted
    /\ log' = <<>>
    /\ UNCHANGED <<mem, opreg, devices, next_address>>

\* C16: a control_transfer or bulk_transfer whose device address is in no
\* table entry returns DeviceNotFound, a bulk_transfer to a device without
\* a bulk endpoint for the direction returns InvalidParameter; either
\* returns at once: no QH is inserted, and memory, the registers, the
\* device table and the address counter are as before the call.
C16_BadArgumentsRejected ==
    [][IsCall => /\ UnknownDevice => Rejected("DeviceNotFound")
                 /\ (~UnknownDevice /\ NoBulkEndpoint) => Rejected("InvalidParameter")]_vars

C16_Witness ==
    /\ Returned /\ calls = MaxCalls
    /\ call.op = "bulk" /\ call.device = 2
    /\ result = Err("InvalidParameter")

\* C21: no call rewrites the QH, qTD or staging memory of the transfer
\* before it while a qTD token of that transfer still has Active set: a step
\* that is a call and writes memory finds every token of the earlier
\* transfer not Active.
C21_NoReuseWhileActive ==
    [][(IsCall /\ Inserted /\ mem' # mem) => \A t \in CallTokens : ~Active(t)]_vars

\* fields of a qTD token: the PID code, Interrupt-on-Complete
TokenPid(token) == BitAnd(Lo16(token), 768)
TokenIoc(token) == BitAnd(Lo16(token), TOKEN_IOC) # 0
\* the qTD pointer w links to the qTD at address a
LinksTo(w, a) == ~PtrTerminate(w) /\ PtrAddr(w) = a

\* the chain of a control request with a data stage of len bytes in
\* direction is_in, as memory m holds it behind the control QH
CtlChain(m, len, is_in) ==
    LET setup == Read32(m, CtlSetupQtd + QTD_token)
        data == Read32(m, CtlDataQtd + QTD_token)
        status == Read32(m, CtlStatusQtd(len) + QTD_token)
    IN  /\ LinksTo(Read32(m, CtlQhAddr + QH_overlay + QTD_next_qtd), CtlSetupQtd)
        /\ TokenPid(setup) = PID_SETUP /\ ~TokenDt(setup) /\ TokenTotalBytes(setup) = 8
        /\ Active(setup)
        /\ IF len > 0
           THEN /\ LinksTo(Read32(m, CtlSetupQtd + QTD_next_qtd), CtlDataQtd)
                /\ TokenPid(data) = (IF is_in THEN PID_IN ELSE PID_OUT)
                /\ TokenDt(data) /\ ~TokenIoc(data) /\ Active(data)
                /\ LinksTo(Read32(m, CtlDataQtd + QTD_next_qtd), CtlStatusQtd(len))
                /\ CtlStatusQtd(len) # CtlDataQtd
                /\ TokenPid(status) = (IF is_in THEN PID_OUT ELSE PID_IN)
           ELSE /\ LinksTo(Read32(m, CtlSetupQtd + QTD_next_qtd), CtlStatusQtd(len))
                /\ TokenPid(status) = PID_IN
        /\ TokenDt(status) /\ TokenIoc(status) /\ Active(status)
        /\ PtrTerminate(Read32(m, CtlStatusQtd(len) + QTD_next_qtd))

\* C24: the step of a control_transfer call that submits a request leaves
\* in memory the chain SETUP (PID SETUP, toggle 0, 8 bytes), then with a
\* non-zero data length DATA (PID by bit 7 of the request type, toggle 1,
\* no Interrupt-on-Complete), then STATUS (toggle 1, Interrupt-on-Complete,
\* direction opposite to DATA, IN without data stage), each linked to its
\* successor and the STATUS qTD's next pointer terminated.
C24_ControlChain ==
    [][(IsCall /\ call'.op = "control" /\ call'.inserted)
          => CtlChain(mem', call'.len, call'.is_in)]_vars

\* the second call of a behaviour submitted an OUT request with a data
\* stage; the controller has not touched the chain yet
C24_Witness ==
    /\ pc = "ctl_wait" /\ calls = MaxCalls
    /\ call.len > 0 /\ ~call.is_in
    /\ CtlChain(mem, call.len, call.is_in)

\* The toggle the controller gives the first packet of the qTD it fetches
\* behind the QH at qh: with DTC (bit 14 of ep_chars) set, the toggle bit of
\* the qTD's token; with DTC clear, the toggle bit the QH overlay holds
HwInitialToggle(m, qh, qtd) ==
    IF BitAnd(Lo16(Read32(m, qh + QH_ep_chars)), 16384) # 0
    THEN TokenDt(Read32(m, qtd + QTD_token))
    ELSE TokenDt(Read32(m, qh + QH_overlay + QTD_token))

\* C32: when bulk_transfer has linked its QH, the toggle the controller
\* applies to the first packet is the toggle the device record held for the
\* endpoint at the call.
C32_BulkInitialToggle ==
    [][(IsCall /\ call'.op = "bulk" /\ call'.inserted) =>
          HwInitialToggle(mem', BulkQhAddr, BulkQtdAddr) = call'.toggle]_vars

\* The layout rustc gives a #[repr(C, align(a))] struct.  A field is
\* [size, align]; field i lies at the end of field i - 1 rounded up to its
\* own alignment; the struct is aligned to the largest alignment among a
\* and its fields and its size is rounded up to that.
AlignUp(n, a) == ((n + a - 1) \div a) * a

RECURSIVE ReprCOffset(_, _)
ReprCOffset(fields, i) ==
    IF i = 1 THEN 0
    ELSE AlignUp(ReprCOffset(fields, i - 1) + fields[i - 1].size, fields[i].align)

ReprCAlign(fields, a) ==
    CHOOSE x \in {a} \cup {fields[i].align : i \in DOMAIN fields} :
        \A y \in {a} \cup {fields[i].align : i \in DOMAIN fields} : y <= x

ReprCSize(fields, a) ==
    AlignUp(ReprCOffset(fields, Len(fields)) + fields[Len(fields)].size,
            ReprCAlign(fields, a))

\* struct QueueTransferDescriptor: next_qtd, alt_qtd, token: u32;
\* buffer_ptrs, ext_buffer_ptrs: [u32; 5]
QtdFields ==
    <<[size |-> 4, align |-> 4], [size |-> 4, align |-> 4], [size |-> 4, align |-> 4],
      [size |-> 20, align |-> 4], [size |-> 20, align |-> 4]>>

\* struct QueueHead: horiz_link_ptr, ep_chars, ep_caps, cur_qtd: u32;
\* overlay: QueueTransferDescriptor
QhFields ==
    <<[size |-> 4, align |-> 4], [size |-> 4, align |-> 4], [size |-> 4, align |-> 4],
      [size |-> 4, align |-> 4],
      [size |-> ReprCSize(QtdFields, 32), align |-> ReprCAlign(QtdFields, 32)]>>

\* the offsets and sizes the model uses are the ones of the declarations
LayoutOfDeclarations ==
    /\ <<QTD_next_qtd, QTD_alt_qtd, QTD_token, QTD_buffer_ptrs, QTD_ext_buffer_ptrs>>
          = [i \in 1 .. 5 |-> ReprCOffset(QtdFields, i)]
    /\ QTD_SIZE = ReprCSize(QtdFields, 32)
    /\ <<QH_horiz_link_ptr, QH_ep_chars, QH_ep_caps, QH_cur_qtd, QH_overlay>>
          = [i \in 1 .. 5 |-> ReprCOffset(QhFields, i)]
    /\ QH_SIZE = ReprCSize(QhFields, 32)

\* C33: the records have the layout their documentation states: a QueueHead
\* is 48 bytes with its four words at offsets 0, 4, 8, 12 and the overlay
\* at offset 16, a QueueTransferDescriptor is 32 bytes; and once a control
\* transfer is linked, the word at offset 16 of its QH, where the overlay's
\* next-qTD pointer lies in that layout, points at the SETUP qTD.
C33_DocumentedLayout ==
    /\ ReprCSize(QhFields, 32) = 48
    /\ [i \in 1 .. 5 |-> ReprCOffset(QhFields, i)] = <<0, 4, 8, 12, 16>>
    /\ ReprCSize(QtdFields, 32) = 32
    /\ (pc = "ctl_wait") => LinksTo(Read32(mem, CtlQhAddr + 16), CtlSetupQtd)

\* a region of memory: len bytes at a
Region(a, len) == a .. a + len - 1

\* the regions control_transfer_internal writes for a transfer of len data
\* bytes, and the ones bulk_transfer writes, each record with the size of
\* its declaration
CtlRegions(len) ==
    <<Region(DmaBuffer, 8), Region(CtlQhAddr, QH_SIZE), Region(CtlSetupQtd, QTD_SIZE),
      Region(CtlStatusQtd(len), QTD_SIZE), Region(CtlDataBuffer, len)>>
    \o (IF len > 0 THEN <<Region(CtlDataQtd, QTD_SIZE)>> ELSE <<>>)

BulkRegions(len) ==
    <<Region(BulkQhAddr, QH_SIZE), Region(BulkQtdAddr, QTD_SIZE),
      Region(BulkDataBuffer, len)>>

PairwiseDisjoint(regions) ==
    \A i, j \in DOMAIN regions : (i # j) => (regions[i] \cap regions[j] = {})

\* C34: the regions written for a transfer are pairwise disjoint, each
\* record taken with the size its declaration has: for a control transfer
\* the setup packet, the QH, the SETUP, DATA and STATUS qTDs and the
\* staging area, for a bulk transfer the QH, the qTD and the staging area.
C34_RegionsDisjoint ==
    /\ (call.op = "control" /\ Inserted) => PairwiseDisjoint(CtlRegions(call.len))
    /\ (call.op = "bulk" /\ Inserted) => PairwiseDisjoint(BulkRegions(call.len))

\* the doorbell loop of a removal ends on reading USBSTS.IAA set
IaaWaitMet ==
    /\ pc = "ctl_iaa_wait"
    /\ pc' = "idle"
    /\ BitAnd(read_op_reg(opreg, USBSTS), IAA) # 0

\* C36: the IAA status that ends the wait of a removal answers the doorbell
\* of that removal: when the loop reads IAA set, the controller has taken
\* the doorbell rung by this removal (it clears USBCMD.IAAD as it raises
\* IAA), so the bit is not one left over from an earlier doorbell.
C36_IaaAnswersOwnDoorbell ==
    [][IaaWaitMet => BitAnd(opreg[USBCMD], IAAD) = 0]_vars

\* the endpoint number and the maximum packet size in ep_chars of the QH
\* at qh: bits 8..11 and bits 16..26
QhEndpoint(m, qh) == (Lo16(Read32(m, qh + QH_ep_chars)) \div 256) % 16
QhMaxPacket(m, qh) == Hi16(Read32(m, qh + QH_ep_chars)) % 2048

\* C38: when bulk_transfer has linked its QH, the endpoint number in the QH
\* is the number of the endpoint the device record holds for the direction
\* of the call, the maximum packet size in the QH is that endpoint's, and
\* the toggle in the qTD token is the one stored for it.
C38_BulkDrivesRecordedEndpoint ==
    [][(IsCall /\ call'.op = "bulk" /\ call'.inserted) =>
          LET dev == Unwrap(get_device(devices, call'.device))
              ep == Unwrap(BulkEndpoint(dev, call'.is_in))
          IN  /\ QhEndpoint(mem', BulkQhAddr) = ep.number
              /\ QhMaxPacket(mem', BulkQhAddr) = ep.max_packet_size
              /\ TokenDt(Read32(mem', BulkQtdAddr + QTD_token))
                    = BulkToggle(dev, call'.is_in)]_vars

\* the second and third conjunct of C38 alone
BulkUsesRecordedPacketAndToggle ==
    [][(IsCall /\ call'.op = "bulk" /\ call'.inserted) =>
          LET dev == Unwrap(get_device(devices, call'.device))
              ep == Unwrap(BulkEndpoint(dev, call'.is_in))
          IN  /\ QhMaxPacket(mem', BulkQhAddr) = ep.max_packet_size
              /\ TokenDt(Read32(mem', BulkQtdAddr + QTD_token))
                    = BulkToggle(dev, call'.is_in)]_vars

\* C39: the public control_transfer never changes the device table.  From
\* the step that enters it to the step that returns, whatever the outcome,
\* every slot of the table and the address counter stay as they are; with
\* the table already enumerated, the only step that changes the table at
\* all is the return of a successful bulk transfer, and it changes nothing
\* but a toggle.
InControl == pc \in {"ctl_wait", "ctl_expired", "ctl_iaa_wait"}
SameButToggles(d, e) ==
    \A s \in DOMAIN d :
       /\ IsSome(d[s]) = IsSome(e[s])
       /\ IsSome(d[s]) =>
             [Unwrap(d[s]) EXCEPT !.bulk_in_toggle = FALSE, !.bulk_out_toggle = FALSE]
             = [Unwrap(e[s]) EXCEPT !.bulk_in_toggle = FALSE, !.bulk_out_toggle = FALSE]
C39_ControlKeepsDeviceTable ==
    [][/\ (InControl \/ (IsCall /\ call'.op = "control"))
            => (devices' = devices /\ next_address' = next_address)
       /\ (call'.op = "control" /\ pc' = "idle")
            => (devices' = call'.devices0)
       /\ next_address' = next_address
       /\ devices' # devices
            => /\ call.op = "bulk" /\ pc' = "idle" /\ result'.ok
               /\ SameButToggles(devices, devices')]_vars

\* a control transfer has returned Ok, with a
\* toggle set by an earlier bulk transfer still in the table
C39_Witness ==
    /\ Returned /\ call.op = "control" /\ call.inserted /\ result.ok
    /\ devices = call.devices0
    /\ \E s \in DOMAIN devices :
          IsSome(devices[s]) /\ (Unwrap(devices[s]).bulk_in_toggle
                                 \/ Unwrap(devices[s]).bulk_out_toggle)

(***************************************************************************)
(***************************************************************************)
(* Bring-up: EhciController::new, that is init() and enumerate_ports()     *)
(* with attach_device().  The specification SpecBringUp starts before      *)
(* new() has touched the controller.  It uses the same variables: opreg    *)
(* holds the port registers as well, call holds the locals of              *)
(* enumerate_ports and attach_device, hw what is plugged into each port    *)
(* and whether the controller completes its reset.                         *)
(***************************************************************************)
(***************************************************************************)
\* number of root ports the controller reports (hcsparams & 0xF)
NumPorts == 2

PORTSC_BASE == 68
CCS == 1
CSC == 2
PE == 4
PEC == 8
OCC == 32
PR == 256
LS_MASK == 3072
LS_JSTATE == 1024
LS_KSTATE == 2048
PP == 4096
PO == 8192
W1C_MASK == CSC + PEC + OCC
MAX_PORTS == 8

Min(a, b) == IF a < b THEN a ELSE b
Max(a, b) == IF a < b THEN b ELSE a

\* num_ports: num_ports.min(MAX_PORTS as u8)
num_ports == Min(NumPorts, MAX_PORTS)
Ports == 0 .. num_ports - 1

PortReg(port) == PORTSC_BASE + port * 4
PortRegs == {PortReg(p) : p \in Ports}

read_port_reg(regs, port) == regs[PortReg(port)]

\* What a port register holds after software writes value: connect status
\* and line state are the hardware's, the change bits are cleared by writing
\* one, the other bits are stored.  A write that ends a reset (PR one to
\* zero) on a port with a high-speed device leaves the port enabled.
PortAfterWrite(old, value, high_speed) ==
    LET ro == CCS + LS_MASK
        kept == BitAnd(old, ro)
        w1c == BitClear(BitAnd(old, W1C_MASK), BitAnd(value, W1C_MASK))
        rw == BitClear(BitClear(value, ro), W1C_MASK)
        ended == BitAnd(old, PR) # 0 /\ BitAnd(value, PR) = 0
        pe == IF ended THEN (IF high_speed THEN PE ELSE 0) ELSE BitAnd(rw, PE)
    IN  BitOr(BitOr(kept, w1c), BitOr(BitClear(rw, PE), pe))

(***************************************************************************)
(* What is plugged into a port, and the descriptors a device returns.      *)
(* dev is the device: "low" a low-speed one, "full" a full-speed one (the  *)
(* reset does not enable its port), "storage", "keyboard", "bare" and      *)
(* "halfstorage" high-speed ones: "bare" has a configuration descriptor    *)
(* whose bConfigurationValue is 0 and no interface, "halfstorage" a        *)
(* mass-storage interface with a bulk-in endpoint and no bulk-out one.     *)
(* ls is the line status the controller reports in PORTSC, encoded         *)
(* as the register definition PORTSC::LS of ehci_regs.rs has it: a         *)
(* low-speed device idles in K-state, a full- or high-speed device in      *)
(* J-state; a controller that does not drive the field reports SE0.        *)
(***************************************************************************)
PORTSC_LS_SE0 == 0
PORTSC_LS_KState == 1
PORTSC_LS_JState == 2
\* LS OFFSET(10) NUMBITS(2)
LsField(v) == v * 1024

PortKinds ==
    {[dev |-> "none", ls |-> PORTSC_LS_SE0], [dev |-> "low", ls |-> PORTSC_LS_KState]}
    \cup {[dev |-> d, ls |-> l] : d \in {"full", "storage", "keyboard"},
                                 l \in {PORTSC_LS_JState, PORTSC_LS_SE0}}
    \cup {[dev |-> d, ls |-> PORTSC_LS_SE0] : d \in {"bare", "halfstorage"}}
HighSpeed(kind) == kind.dev \in {"storage", "keyboard", "bare", "halfstorage"}

\* the port register as enumerate_ports first reads it
PortscOf(kind) ==
    IF kind.dev = "none" THEN PP ELSE CCS + CSC + PP + LsField(kind.ls)

\* the 18-byte device descriptor; byte 7 is bMaxPacketSize0
DeviceDescriptorBytes(kind) ==
    <<18, 1, 0, 2, 0, 0, 0, IF kind = "storage" THEN 64 ELSE 8,
      52, 18, 120, 86, 0, 1, 1, 2, 3, 1>>

\* the configuration descriptor: header (total length in bytes 2 and 3,
\* configuration value in byte 5), one interface, its endpoints; the
\* keyboard's carries a HID class descriptor as well
ConfigDescriptorBytes(kind) ==
    IF kind = "storage"
    THEN <<9, 2, 32, 0, 1, 1, 0, 128, 50>>
         \o <<9, 4, 0, 0, 2, 8, 6, 80, 0>>
         \o <<7, 5, 129, 2, 0, 2, 0>>
         \o <<7, 5, 2, 2, 0, 2, 0>>
    ELSE IF kind = "bare"
    THEN <<9, 2, 9, 0, 0, 0, 0, 128, 50>>
    ELSE IF kind = "halfstorage"
    THEN <<9, 2, 25, 0, 1, 1, 0, 128, 50>>
         \o <<9, 4, 0, 0, 1, 8, 6, 80, 0>>
         \o <<7, 5, 129, 2, 0, 2, 0>>
    ELSE <<9, 2, 34, 0, 1, 1, 0, 160, 50>>
         \o <<9, 4, 0, 0, 1, 3, 1, 1, 0>>
         \o <<9, 33, 17, 1, 0, 1, 34, 63, 0>>
         \o <<7, 5, 129, 3, 8, 0, 10>>

Take(s, n) == SubSeq(s, 1, Min(n, Len(s)))

\* the bytes a GET_DESCRIPTOR for `len` bytes leaves in the caller's buffer:
\* what the device sent, the rest of the buffer as the caller zeroed it
DescriptorAnswer(kind, value, len) ==
    LET full == IF value = 256 THEN DeviceDescriptorBytes(kind)
                ELSE ConfigDescriptorBytes(kind)
        sent == Take(full, len)
    IN  sent \o Zeros(len - Len(sent))

(***************************************************************************)
(* super::core (descriptor parsing): parse_configuration walks the         *)
(* descriptors by their length byte; an interface descriptor (type 4)      *)
(* opens an interface, an endpoint descriptor (type 5) adds an endpoint to *)
(* the open interface.                                                     *)
(***************************************************************************)
RECURSIVE ParseWalk(_, _, _)
ParseWalk(bytes, pos, interfaces) ==
    IF pos + 1 > Len(bytes) \/ bytes[pos] < 2 \/ pos + bytes[pos] - 1 > Len(bytes)
    THEN interfaces
    ELSE LET len == bytes[pos]
             type == bytes[pos + 1]
         IN  IF type = 4 /\ len >= 9
             THEN ParseWalk(bytes, pos + len,
                      Append(interfaces,
                             [interface_class |-> bytes[pos + 5],
                              interface_subclass |-> bytes[pos + 6],
                              interface_protocol |-> bytes[pos + 7],
                              endpoints |-> <<>>]))
             ELSE IF type = 5 /\ len >= 7 /\ Len(interfaces) > 0
             THEN ParseWalk(bytes, pos + len,
                      [interfaces EXCEPT ![Len(interfaces)].endpoints =
                          Append(@, [number |-> bytes[pos + 2] % 16,
                                     is_in |-> bytes[pos + 2] >= 128,
                                     transfer_type |-> bytes[pos + 3] % 4,
                                     max_packet_size |->
                                         bytes[pos + 4] + 256 * bytes[pos + 5]])])
             ELSE ParseWalk(bytes, pos + len, interfaces)

parse_configuration(bytes) ==
    IF Len(bytes) < 9
    THEN [configuration_value |-> 0, num_interfaces |-> 0, interfaces |-> <<>>]
    ELSE [configuration_value |-> bytes[6],
          num_interfaces |-> Len(ParseWalk(bytes, 1, <<>>)),
          interfaces |-> ParseWalk(bytes, 1, <<>>)]

is_mass_storage(iface) == iface.interface_class = 8
is_hid_keyboard(iface) ==
    iface.interface_class = 3 /\ iface.interface_subclass = 1
    /\ iface.interface_protocol = 1

\* find_bulk_in / find_bulk_out / find_interrupt_in: the first endpoint of
\* the interface with that transfer type and direction
FindEndpoint(iface, transfer_type, is_in) ==
    LET hits == {i \in 1 .. Len(iface.endpoints) :
                    /\ iface.endpoints[i].transfer_type = transfer_type
                    /\ iface.endpoints[i].is_in = is_in}
    IN  IF hits = {} THEN None
        ELSE LET e == iface.endpoints[CHOOSE i \in hits : \A j \in hits : i <= j]
             IN  Some(EndpointInfo(e.number, e.max_packet_size))

(***************************************************************************)
(* attach_device: the device record and the interface loop.                *)
(***************************************************************************)
\* a record made with address 1 whatever address is passed
EhciDeviceNew_One(address, port) ==
    [address |-> 1, port |-> port, speed |-> "High",
     is_mass_storage |-> FALSE, is_hid_keyboard |-> FALSE,
     bulk_in |-> None, bulk_out |-> None, interrupt_in |-> None,
     ep0_max_packet |-> 64,
     bulk_in_toggle |-> FALSE, bulk_out_toggle |-> FALSE]

\* EhciDevice::new(address, port, UsbSpeed::High); 64 is
\* speed.default_max_packet_size() of a high-speed device
EhciDeviceNew(address, port) ==
    [address |-> address, port |-> port, speed |-> "High",
     is_mass_storage |-> FALSE, is_hid_keyboard |-> FALSE,
     bulk_in |-> None, bulk_out |-> None, interrupt_in |-> None,
     ep0_max_packet |-> 64,
     bulk_in_toggle |-> FALSE, bulk_out_toggle |-> FALSE]

\* for iface in &device.config_info.interfaces[..num_interfaces] { ... }
RECURSIVE ClassifyFrom(_, _, _)
ClassifyFrom(device, interfaces, i) ==
    IF i > Len(interfaces) THEN device
    ELSE LET iface == interfaces[i]
         IN  IF is_mass_storage(iface)
             THEN ClassifyFrom([device EXCEPT
                                   !.is_mass_storage = TRUE,
                                   !.bulk_in = FindEndpoint(iface, 2, TRUE),
                                   !.bulk_out = FindEndpoint(iface, 2, FALSE)],
                               interfaces, i + 1)
             ELSE IF is_hid_keyboard(iface)
             THEN ClassifyFrom([device EXCEPT
                                   !.is_hid_keyboard = TRUE,
                                   !.interrupt_in = FindEndpoint(iface, 3, TRUE)],
                               interfaces, i + 1)
             ELSE ClassifyFrom(device, interfaces, i + 1)

Classify(device, config_info) == ClassifyFrom(device, config_info.interfaces, 1)

\* the address attach_device gives the device once SET_ADDRESS has succeeded
AssignAddress_Keep(device, address) == device
AssignAddress(device, address) == [device EXCEPT !.address = address]

\* a search that looks at the first slot of the table only
FreeSlot_FirstOnly(devs) == IF IsSome(devs[0]) THEN -1 ELSE 0

\* self.devices.iter().position(|d| d.is_none()); -1 when the table is full
FreeSlot(devs) ==
    LET free == {s \in Slots : ~IsSome(devs[s])}
    IN  IF free = {} THEN -1 ELSE CHOOSE s \in free : \A t \in free : s <= t

\* find_mass_storage: the address of the first mass-storage device
find_mass_storage(devs) ==
    LET hits == {s \in Slots : IsSome(devs[s]) /\ Unwrap(devs[s]).is_mass_storage}
    IN  IF hits = {} THEN None
        ELSE Some(Unwrap(devs[CHOOSE s \in hits : \A t \in hits : s <= t]).address)

get_bulk_endpoints(devs, device) ==
    LET d == get_device(devs, device)
    IN  IF IsSome(d) /\ IsSome(Unwrap(d).bulk_in) /\ IsSome(Unwrap(d).bulk_out)
        THEN Some(<<Unwrap(Unwrap(d).bulk_in), Unwrap(Unwrap(d).bulk_out)>>)
        ELSE None

(***************************************************************************)
(* The state before new() has touched the controller.  The firmware may    *)
(* have left it running or halted; the pages new() allocates are zeroed    *)
(* (the async head) or not read before written (the DMA region).           *)
(***************************************************************************)
AllRegs == OpRegs \cup PortRegs

FirmwareRegs(running, kinds) ==
    [r \in AllRegs |->
        CASE r = USBCMD -> IF running THEN ITC_8 + RS ELSE ITC_8
          [] r = USBSTS -> IF running THEN 0 ELSE HCHALTED
          [] r \in PortRegs -> PortscOf(kinds[(r - PORTSC_BASE) \div 4])
          [] OTHER -> 0]

\* the locals of enumerate_ports and attach_device; seen[p] records what
\* the pass did with port p
NoEnum ==
    [op |-> "new", port |-> 0, device |-> None, address |-> 0, slot |-> 0,
     config_info |-> parse_configuration(<<>>),
     seen |-> [p \in Ports |-> "unvisited"]]

BringUpInit ==
    /\ mem = [a \in Addrs |-> 0]
    /\ \E running \in BOOLEAN, kinds \in [Ports -> PortKinds], reset_ok \in BOOLEAN :
          /\ opreg = FirmwareRegs(running, kinds)
          /\ hw = [ports |-> kinds, reset_ok |-> reset_ok, faults |-> 0]
    /\ devices = [s \in Slots |-> None]
    /\ next_address = 1
    /\ pc = "new"
    /\ call = NoEnum
    /\ buf = <<>>
    /\ result = NoResult
    /\ calls = 0
    /\ log = <<>>
    /\ lastInit = [k \in DeviceArgs \X BOOLEAN |-> -1]

(***************************************************************************)
(* init()                                                                  *)
(***************************************************************************)
\* let cmd = read USBCMD; write USBCMD, cmd & !RS; then the wait for halt
InitStop ==
    /\ pc = "new"
    /\ opreg' = write_op_reg(opreg, USBCMD, BitClear(read_op_reg(opreg, USBCMD), RS))
    /\ log' = Append(log, LogWrite(USBCMD, BitClear(read_op_reg(opreg, USBCMD), RS)))
    /\ pc' = "init_halt_wait"
    /\ UNCHANGED <<mem, devices, next_address, call, buf, result, calls, hw, lastInit>>

\* write USBCMD, HCRESET; then the wait for the bit to clear itself
InitReset ==
    /\ opreg' = write_op_reg(opreg, USBCMD, HCRESET)
    /\ log' = Append(log, LogWrite(USBCMD, HCRESET))
    /\ pc' = "init_reset_wait"
    /\ UNCHANGED <<mem, devices, next_address, call, buf, result, calls, lastInit>>

\* the halt wait reads USBSTS.HCHALTED set and breaks
InitHaltSeen ==
    /\ pc = "init_halt_wait"
    /\ BitAnd(read_op_reg(opreg, USBSTS), HCHALTED) # 0
    /\ InitReset
    /\ UNCHANGED hw

\* the halt wait's 100 ms expire; init goes on to the reset all the same
InitHaltExpire ==
    /\ pc = "init_halt_wait"
    /\ BitAnd(read_op_reg(opreg, USBSTS), HCHALTED) = 0
    /\ HwLate(TRUE)
    /\ InitReset

\* register writes that start the controller before the configured flag
\* is set
InitConfigureWrites_RunFirst ==
    <<LogWrite(USBINTR, 0),
      LogWrite(PERIODICLISTBASE, PeriodicList),
      LogWrite(ASYNCLISTADDR, AsyncQh),
      LogWrite(CTRLDSSEGMENT, 0),
      LogWrite(USBCMD, BitOr(BitOr(BitOr(RS, ASE), FLS_1024), ITC_8)),
      LogWrite(CONFIGFLAG, 1)>>

\* the register writes that follow the reset and the set-up of the head
\* QH, in order
InitConfigureWrites ==
    <<LogWrite(USBINTR, 0),
      LogWrite(PERIODICLISTBASE, PeriodicList),
      LogWrite(ASYNCLISTADDR, AsyncQh),
      LogWrite(CTRLDSSEGMENT, 0),
      LogWrite(CONFIGFLAG, 1),
      LogWrite(USBCMD, BitOr(BitOr(BitOr(RS, ASE), FLS_1024), ITC_8))>>

RECURSIVE ApplyWrites(_, _, _)
ApplyWrites(regs, writes, i) ==
    IF i > Len(writes) THEN regs
    ELSE ApplyWrites(write_op_reg(regs, writes[i].reg, writes[i].val), writes, i + 1)

\* the reset wait reads USBCMD.HCRESET clear and breaks; the re-read agrees;
\* init sets up the head, programs the registers and starts the controller
InitResetSeen ==
    /\ pc = "init_reset_wait"
    /\ BitAnd(read_op_reg(opreg, USBCMD), HCRESET) = 0
    /\ mem' = InitHead(mem)
    /\ opreg' = ApplyWrites(opreg, InitConfigureWrites, 1)
    /\ log' = Append(log, LogOp("head")) \o InitConfigureWrites
    /\ pc' = "init_run_wait"
    /\ UNCHANGED <<devices, next_address, call, buf, result, calls, hw, lastInit>>

\* an expiry of the reset wait that goes on like the other waits of init
InitResetExpire_GoOn ==
    /\ pc = "init_reset_wait"
    /\ BitAnd(read_op_reg(opreg, USBCMD), HCRESET) # 0
    /\ HwLate(hw.reset_ok)
    /\ mem' = InitHead(mem)
    /\ opreg' = ApplyWrites(opreg, InitConfigureWrites, 1)
    /\ log' = Append(log, LogOp("head")) \o InitConfigureWrites
    /\ pc' = "init_run_wait"
    /\ UNCHANGED <<devices, next_address, call, buf, result, calls, lastInit>>

\* the reset wait's 500 ms expire and the re-read still shows HCRESET:
\* init returns Err(Timeout), and new() returns it with `?`
InitResetExpire ==
    /\ pc = "init_reset_wait"
    /\ BitAnd(read_op_reg(opreg, USBCMD), HCRESET) # 0
    /\ HwLate(hw.reset_ok)
    /\ result' = Err("Timeout")
    /\ pc' = "failed"
    /\ UNCHANGED <<mem, opreg, devices, next_address, call, buf, calls, log, lastInit>>

\* the wait for running ends (HCHALTED read clear, or after 100 ms), the
\* ports settle, init returns Ok and enumerate_ports starts at port 0
InitRunSeen ==
    /\ pc = "init_run_wait"
    /\ BitAnd(read_op_reg(opreg, USBSTS), HCHALTED) = 0
    /\ pc' = "enum"
    /\ UNCHANGED <<mem, opreg, devices, next_address, call, buf, result, calls, log,
                   hw, lastInit>>

InitRunExpire ==
    /\ pc = "init_run_wait"
    /\ BitAnd(read_op_reg(opreg, USBSTS), HCHALTED) # 0
    /\ HwLate(TRUE)
    /\ pc' = "enum"
    /\ UNCHANGED <<mem, opreg, devices, next_address, call, buf, result, calls, log,
                   lastInit>>

(***************************************************************************)
(* The controller's side of init: it halts once the run bit is clear,      *)
(* completes a reset (when it does at all), and runs once the run bit is   *)
(* set.                                                                    *)
(***************************************************************************)
HwHalt ==
    /\ pc \in {"init_halt_wait", "init_reset_wait", "cleanup_halt_wait", "cleanup_done"}
    /\ BitAnd(opreg[USBCMD], RS) = 0
    /\ BitAnd(opreg[USBSTS], HCHALTED) = 0
    /\ opreg' = [opreg EXCEPT
                    ![USBSTS] = BitOr(BitClear(BitClear(@, ASS), PSS), HCHALTED)]
    /\ UNCHANGED <<mem, devices, next_address, pc, call, buf, result, calls, log, hw,
                   lastInit>>

HwResetDone ==
    /\ pc = "init_reset_wait"
    /\ hw.reset_ok
    /\ BitAnd(opreg[USBCMD], HCRESET) # 0
    /\ opreg' = [r \in AllRegs |->
                    CASE r = USBCMD -> ITC_8
                      [] r = USBSTS -> HCHALTED
                      [] r \in PortRegs -> opreg[r]
                      [] OTHER -> 0]
    /\ UNCHANGED <<mem, devices, next_address, pc, call, buf, result, calls, log, hw,
                   lastInit>>

HwRun ==
    /\ pc \in {"init_run_wait", "enum"}
    /\ BitAnd(opreg[USBCMD], RS) # 0
    /\ BitAnd(opreg[USBSTS], HCHALTED) # 0
    /\ opreg' = [opreg EXCEPT
                    ![USBSTS] = BitOr(BitClear(@, HCHALTED),
                                      IF BitAnd(opreg[USBCMD], ASE) # 0 THEN ASS ELSE 0)]
    /\ UNCHANGED <<mem, devices, next_address, pc, call, buf, result, calls, log, hw,
                   lastInit>>

(***************************************************************************)
(* enumerate_ports()                                                       *)
(***************************************************************************)
write_port_reg(regs, port, value) ==
    [regs EXCEPT ![PortReg(port)] =
        PortAfterWrite(@, value, HighSpeed(hw.ports[port]))]

\* a test that takes every port for connected
Connected_Always(portsc) == TRUE

\* portsc & portsc::CCS != 0
Connected(portsc) == BitAnd(portsc, CCS) # 0

\* line_status == portsc::LS_KSTATE
IsKState(portsc) == BitAnd(portsc, LS_MASK) = LS_KSTATE

\* the value that releases a port to the companion controller:
\* portsc | portsc::PO
ReleaseToCompanion_NoOwner(portsc) == portsc
ReleaseToCompanion(portsc) == BitOr(portsc, PO)

\* `continue`, or the end of the loop body: on to the next port
EnumAdvance(what) ==
    /\ call' = [call EXCEPT !.port = call.port + 1, !.seen[call.port] = what,
                            !.device = None]
    /\ pc' = "enum"

\* the loop body up to the start of the reset pulse
EnumPort ==
    /\ pc = "enum"
    /\ call.port < num_ports
    /\ LET port == call.port
           portsc == read_port_reg(opreg, port)
       IN  IF ~Connected(portsc)
           THEN /\ EnumAdvance("empty")
                /\ UNCHANGED <<opreg, log>>
           ELSE IF IsKState(portsc)
           THEN /\ opreg' = write_port_reg(opreg, port, ReleaseToCompanion(portsc))
                /\ log' = Append(log, LogWrite(PortReg(port),
                                               ReleaseToCompanion(portsc)))
                /\ EnumAdvance("released")
           ELSE /\ opreg' = write_port_reg(opreg, port, BitOr(BitClear(portsc, PE), PR))
                /\ log' = Append(log, LogWrite(PortReg(port),
                                               BitOr(BitClear(portsc, PE), PR)))
                /\ pc' = "enum_reset"
                /\ UNCHANGED call
    /\ UNCHANGED <<mem, devices, next_address, buf, result, calls, hw, lastInit>>

\* after the 50 ms of reset: write portsc & !PR
EnumClearReset ==
    /\ pc = "enum_reset"
    /\ LET port == call.port
           portsc == read_port_reg(opreg, port)
       IN  /\ opreg' = write_port_reg(opreg, port, BitClear(portsc, PR))
           /\ log' = Append(log, LogWrite(PortReg(port), BitClear(portsc, PR)))
    /\ pc' = "enum_check"
    /\ UNCHANGED <<mem, devices, next_address, call, buf, result, calls, hw, lastInit>>

\* after 10 ms more: a port not enabled is released to the companion
\* controller; on an enabled one the change bits are cleared and
\* attach_device starts (address and slot taken, the device record made)
EnumCheck ==
    /\ pc = "enum_check"
    /\ LET port == call.port
           portsc == read_port_reg(opreg, port)
       IN  IF BitAnd(portsc, PE) = 0
           THEN /\ opreg' = write_port_reg(opreg, port, ReleaseToCompanion(portsc))
                /\ log' = Append(log, LogWrite(PortReg(port),
                                               ReleaseToCompanion(portsc)))
                /\ EnumAdvance("released")
           ELSE /\ opreg' = write_port_reg(opreg, port, BitOr(portsc, W1C_MASK))
                /\ log' = Append(log, LogWrite(PortReg(port), BitOr(portsc, W1C_MASK)))
                /\ IF next_address >= 128 \/ FreeSlot(devices) = -1
                   THEN EnumAdvance("failed")
                   ELSE /\ call' = [call EXCEPT
                                       !.address = next_address,
                                       !.slot = FreeSlot(devices),
                                       !.device = Some(EhciDeviceNew(0, port)),
                                       !.seen[port] = "attaching"]
                        /\ pc' = "attach_desc8"
    /\ UNCHANGED <<mem, devices, next_address, buf, result, calls, hw, lastInit>>

\* the loop is over: enumerate_ports returns Ok(()), new() Ok(controller)
EnumDone ==
    /\ pc = "enum"
    /\ call.port = num_ports
    /\ result' = Ok(0)
    /\ pc' = "idle"
    /\ UNCHANGED <<mem, opreg, devices, next_address, call, buf, calls, log, hw,
                   lastInit>>

(***************************************************************************)
(* attach_device().  Each control_transfer_internal is one step here: the  *)
(* step-by-step transfer is the subject of Spec; what attach_device sees   *)
(* of it is Ok with the device's bytes in the buffer, or an error, and the *)
(* async list and the registers as they were before the call.              *)
(***************************************************************************)
AttachPcs == {"attach_desc8", "attach_set_address", "attach_desc18",
              "attach_config_header", "attach_config", "attach_set_configuration"}

AttachKind == hw.ports[call.port].dev

\* total_len from header[2..3], at most config_buf.len()
TotalLen(header) == Min(header[3] + 256 * header[4], 256)

\* The control request attach_device issues next: the address is the one
\* in the device record handed to control_transfer_internal, then the
\* request code (GET_DESCRIPTOR 6, SET_ADDRESS 5, SET_CONFIGURATION 9),
\* wValue (descriptor type << 8, the address, the configuration value) and
\* the length of the data buffer.
AttachRequest ==
    LET address == Unwrap(call.device).address
        Req(request, value, len) ==
            [port |-> call.port, address |-> address, request |-> request,
             value |-> value, len |-> len]
    IN  CASE pc = "attach_desc8" -> Req(6, 256, 8)
          [] pc = "attach_set_address" -> Req(5, call.address, 0)
          [] pc = "attach_desc18" -> Req(6, 256, 18)
          [] pc = "attach_config_header" -> Req(6, 512, 9)
          [] pc = "attach_config" -> Req(6, 512, TotalLen(buf))
          [] pc = "attach_set_configuration" ->
                 Req(9, call.config_info.configuration_value, 0)

\* a log entry for a control request and whether it returned Ok
LogRequest(r, ok) == [e |-> "request", reg |-> 0, val |-> 0, req |-> r, ok |-> ok]
Issue(ok) == log' = Append(log, LogRequest(AttachRequest, ok))

\* a failed attach that ends the pass: the error returned from
\* enumerate_ports and from new()
AttachTransferFails_Abort ==
    /\ pc \in AttachPcs
    /\ Issue(FALSE)
    /\ hw.faults < MaxFaults
    /\ hw' = [hw EXCEPT !.faults = hw.faults + 1]
    /\ call' = [call EXCEPT !.seen[call.port] = "failed", !.device = None]
    /\ result' = Err("Timeout")
    /\ pc' = "failed"
    /\ UNCHANGED <<mem, opreg, devices, next_address, buf, calls, lastInit>>

\* a control_transfer_internal returns Err and `?` leaves attach_device;
\* enumerate_ports logs the error and goes on
AttachTransferFails ==
    /\ pc \in AttachPcs
    /\ Issue(FALSE)
    /\ hw.faults < MaxFaults
    /\ hw' = [hw EXCEPT !.faults = hw.faults + 1]
    /\ EnumAdvance("failed")
    /\ UNCHANGED <<mem, opreg, devices, next_address, buf, result, calls, lastInit>>

\* GET_DESCRIPTOR(DEVICE) into desc_buf: [u8; 8]
AttachDesc8 ==
    /\ pc = "attach_desc8"
    /\ Issue(TRUE)
    /\ buf' = DescriptorAnswer(AttachKind, 256, 8)
    /\ call' = [call EXCEPT !.device = Some([Unwrap(call.device) EXCEPT
                                !.ep0_max_packet = Max(buf'[8], 8)])]
    /\ pc' = "attach_set_address"
    /\ UNCHANGED <<mem, opreg, devices, next_address, result, calls, hw, lastInit>>

\* SET_ADDRESS(address); device.address = address; self.next_address += 1
AttachSetAddress ==
    /\ pc = "attach_set_address"
    /\ Issue(TRUE)
    /\ call' = [call EXCEPT
                   !.device = Some(AssignAddress(Unwrap(call.device), call.address))]
    /\ next_address' = (next_address + 1) % 256
    /\ pc' = "attach_desc18"
    /\ UNCHANGED <<mem, opreg, devices, buf, result, calls, hw, lastInit>>

\* GET_DESCRIPTOR(DEVICE) into desc_buf: [u8; 18]
AttachDesc18 ==
    /\ pc = "attach_desc18"
    /\ Issue(TRUE)
    /\ buf' = DescriptorAnswer(AttachKind, 256, 18)
    /\ pc' = "attach_config_header"
    /\ UNCHANGED <<mem, opreg, devices, next_address, call, result, calls, hw,
                   lastInit>>

\* GET_DESCRIPTOR(CONFIGURATION) into header: [u8; 9]
AttachConfigHeader ==
    /\ pc = "attach_config_header"
    /\ Issue(TRUE)
    /\ buf' = DescriptorAnswer(AttachKind, 512, 9)
    /\ pc' = "attach_config"
    /\ UNCHANGED <<mem, opreg, devices, next_address, call, result, calls, hw,
                   lastInit>>

\* self.devices[slot] = Some(device); Ok(())
AttachStore(device) ==
    /\ devices' = [devices EXCEPT ![call.slot] = Some(device)]
    /\ call' = [call EXCEPT !.port = call.port + 1, !.seen[call.port] = "attached",
                            !.device = None]
    /\ pc' = "enum"

\* GET_DESCRIPTOR(CONFIGURATION) into config_buf[..total_len], the parse
\* and the interface loop; without a configuration value the device is
\* stored at once
AttachConfig ==
    /\ pc = "attach_config"
    /\ Issue(TRUE)
    /\ buf' = DescriptorAnswer(AttachKind, 512, TotalLen(buf))
    /\ LET config_info == parse_configuration(buf')
           device == Classify(Unwrap(call.device), config_info)
       IN  IF config_info.configuration_value > 0
           THEN /\ call' = [call EXCEPT !.device = Some(device),
                                        !.config_info = config_info]
                /\ pc' = "attach_set_configuration"
                /\ UNCHANGED devices
           ELSE AttachStore(device)
    /\ UNCHANGED <<mem, opreg, next_address, result, calls, hw, lastInit>>

\* SET_CONFIGURATION(configuration_value), then the device is stored
AttachSetConfiguration ==
    /\ pc = "attach_set_configuration"
    /\ Issue(TRUE)
    /\ AttachStore(Unwrap(call.device))
    /\ UNCHANGED <<mem, opreg, next_address, buf, result, calls, hw, lastInit>>

BringUpNext ==
    \/ InitStop
    \/ InitHaltSeen
    \/ InitHaltExpire
    \/ InitResetSeen
    \/ InitResetExpire
    \/ InitRunSeen
    \/ InitRunExpire
    \/ HwHalt
    \/ HwResetDone
    \/ HwRun
    \/ EnumPort
    \/ EnumClearReset
    \/ EnumCheck
    \/ EnumDone
    \/ AttachTransferFails
    \/ AttachDesc8
    \/ AttachSetAddress
    \/ AttachDesc18
    \/ AttachConfigHeader
    \/ AttachConfig
    \/ AttachSetConfiguration

SpecBringUp == BringUpInit /\ [][BringUpNext]_vars

(***************************************************************************)
(* Properties of bring-up.                                                 *)
(***************************************************************************)
\* the writes made to port p's register so far
PortWrites(p) == {i \in 1 .. Len(log) : log[i].e = "write" /\ log[i].reg = PortReg(p)}
\* some write to port p's register had the bit set
Written(p, bit) == \E i \in PortWrites(p) : BitAnd(log[i].val, bit) # 0
\* the table holds a device of port p
OnPort(p) == \E s \in Slots : IsSome(devices[s]) /\ Unwrap(devices[s]).port = p
AttachInvoked == pc' \in AttachPcs \/ call'.seen[call.port] \in {"attaching", "failed"}

\* C11: when, after the reset pulse, a connected port's Port-Enable bit
\* reads clear, enumerate_ports writes the port register with the
\* port-owner bit set and goes on to the next port without invoking
\* attach_device; no step of the port's reset and check changes the device
\* table or the address counter.
C11_NotEnabledReleased ==
    [][/\ (pc = "enum_check" /\ BitAnd(read_port_reg(opreg, call.port), PE) = 0)
          => /\ log' = Append(log, log'[Len(log')])
             /\ log'[Len(log')].reg = PortReg(call.port)
             /\ BitAnd(log'[Len(log')].val, PO) # 0
             /\ ~AttachInvoked
             /\ pc' = "enum" /\ call'.port = call.port + 1
       /\ (pc \in {"enum_reset", "enum_check"})
          => UNCHANGED <<devices, next_address>>]_vars

C11_Witness ==
    \E p \in Ports :
        /\ p < call.port /\ Written(p, PR) /\ Written(p, PO)
        /\ BitAnd(read_port_reg(opreg, p), PE) = 0

\* the line status PORTSC reports for port p is K-state (LS = 1, as
\* PORTSC::LS defines it) and a device is connected
KStatePort(p) ==
    /\ BitAnd(read_port_reg(opreg, p), CCS) # 0
    /\ BitAnd(read_port_reg(opreg, p), LS_MASK) = LsField(PORTSC_LS_KState)

\* C12: a connected port whose line status is K-state never has the
\* port-reset bit written; once enumerate_ports has passed it, its register
\* has been written with the port-owner bit set, and at no time does the
\* table hold a device of that port.
C12_KStateNeverReset ==
    \A p \in Ports :
        KStatePort(p) =>
            /\ ~Written(p, PR)
            /\ ~OnPort(p)
            /\ (p < call.port /\ pc \notin {"new", "init_halt_wait", "init_reset_wait",
                                             "init_run_wait", "failed"})
                  => Written(p, PO)

\* new() has returned Ok(controller)
BroughtUp == pc = "idle" /\ result = Ok(0)

\* port 0 holds a high-speed mass-storage device whose line status reads
\* ls before the reset, the other ports are empty, and every request of
\* the attach was answered
OnlyStorageOnPort0(ls) ==
    /\ hw.ports[0] = [dev |-> "storage", ls |-> ls]
    /\ \A p \in Ports \ {0} : hw.ports[p].dev = "none"
    /\ hw.faults = 0

\* slot 0 holds address 1, find_mass_storage() is Some(1) and
\* get_bulk_endpoints(1) the bulk-in and the bulk-out endpoint
StorageEndState ==
    /\ IsSome(devices[0]) /\ Unwrap(devices[0]).address = 1
    /\ Unwrap(devices[0]).ep0_max_packet = 64
    /\ find_mass_storage(devices) = Some(1)
    /\ get_bulk_endpoints(devices, 1)
         = Some(<<EndpointInfo(1, 512), EndpointInfo(2, 512)>>)

\* C13: with a mass-storage device on one port that is connected in
\* J-state, bring-up ends with slot 0 holding address 1, find_mass_storage()
\* = Some(1) and get_bulk_endpoints(1) returning the two bulk endpoints.
C13_FullEnumeration ==
    (BroughtUp /\ OnlyStorageOnPort0(PORTSC_LS_JState)) => StorageEndState

\* the same end state for a port whose line status reads SE0
StorageEndStateFromSE0 ==
    (BroughtUp /\ OnlyStorageOnPort0(PORTSC_LS_SE0)) => StorageEndState

\* the occupied slots of the device table
Occupied == {s \in Slots : IsSome(devices[s])}

\* C18: in every state the addresses held by occupied device-table slots
\* lie in 1..127 and are pairwise distinct; address 0 is never stored.
C18_AddressesDistinct ==
    /\ \A s \in Occupied : Unwrap(devices[s]).address \in 1 .. 127
    /\ \A s, t \in Occupied :
          Unwrap(devices[s]).address = Unwrap(devices[t]).address => s = t

\* a pass that stored two devices
C18_Witness ==
    /\ Cardinality(Occupied) >= 2
    /\ pc = "idle"

\* C19: a failed attach does not end the pass.  Bring-up fails only before
\* any port is visited; when enumerate_ports has returned, it returned Ok,
\* every port was visited, each port whose attach succeeded has its device
\* in the table and no port whose attach failed has one.
C19_AttachFailureScoped ==
    /\ (pc = "failed") => (\A p \in Ports : call.seen[p] = "unvisited")
    /\ (pc = "idle") =>
          /\ result = Ok(0)
          /\ \A p \in Ports : call.seen[p] \notin {"unvisited", "attaching"}
    /\ \A p \in Ports :
          /\ (call.seen[p] = "attached") => OnPort(p)
          /\ (call.seen[p] = "failed") => ~OnPort(p)

\* a pass in which the attach failed on one port and succeeded on a later
\* one
C19_Witness ==
    /\ pc = "idle"
    /\ \E p, q \in Ports : p < q /\ call.seen[p] = "failed" /\ call.seen[q] = "attached"

\* the driver's writes so far to an operational register
OpWrites(reg) == {i \in 1 .. Len(log) : log[i].e = "write" /\ log[i].reg = reg}

\* C20: when the reset wait ends with HCRESET still set, bring-up has
\* failed with Timeout: no write has set the run bit, none has set the
\* configured flag, no port register was written, no port was visited and
\* the table is empty; a controller whose reset never completes gets no
\* further than the reset wait.
C20_ResetTimeoutFatal ==
    /\ (pc = "failed") =>
          /\ result = Err("Timeout")
          /\ \A i \in OpWrites(USBCMD) : BitAnd(log[i].val, RS) = 0
          /\ OpWrites(CONFIGFLAG) = {}
          /\ \A p \in Ports : PortWrites(p) = {} /\ call.seen[p] = "unvisited"
          /\ Occupied = {}
          /\ BitAnd(read_op_reg(opreg, USBCMD), RS) = 0
          /\ read_op_reg(opreg, CONFIGFLAG) = 0
    /\ (~hw.reset_ok) =>
          pc \in {"new", "init_halt_wait", "init_reset_wait", "failed"}

C20_Witness ==
    pc = "failed" /\ ~hw.reset_ok /\ BitAnd(read_op_reg(opreg, USBCMD), HCRESET) # 0

\* the control requests attach_device has issued for port p, in order
RequestsOf(p) == SelectSeq(log, LAMBDA x : x.e = "request" /\ x.req.port = p)
\* the i-th request of an attach is the one the sequence has at place i:
\* GET_DESCRIPTOR(device, 8), SET_ADDRESS, GET_DESCRIPTOR(device, 18),
\* GET_DESCRIPTOR(configuration, 9), GET_DESCRIPTOR(configuration, total),
\* SET_CONFIGURATION
RequestIs(r, i) ==
    CASE i = 1 -> r.request = 6 /\ r.value = 256 /\ r.len = 8
      [] i = 2 -> r.request = 5 /\ r.len = 0
      [] i = 3 -> r.request = 6 /\ r.value = 256 /\ r.len = 18
      [] i = 4 -> r.request = 6 /\ r.value = 512 /\ r.len = 9
      [] i = 5 -> r.request = 6 /\ r.value = 512
      [] i = 6 -> r.request = 9 /\ r.len = 0
      [] OTHER -> FALSE
\* the configuration value in what the device on port p answered to the
\* request for its full configuration
ConfigValueOf(p) ==
    parse_configuration(
        DescriptorAnswer(hw.ports[p].dev, 512, RequestsOf(p)[5].req.len)
    ).configuration_value

\* C25: for every port, the requests of its attach are a prefix of the
\* fixed sequence; the first two go to address 0 and the later ones to the
\* address SET_ADDRESS carried; only the last request issued can have
\* failed, and then the port has no device in the table; SET_CONFIGURATION
\* is issued exactly when the parsed configuration value is non-zero, with
\* that value; a device is in the table only when every request of the
\* sequence was issued and succeeded.
C25_AttachRequestOrder ==
    \A p \in Ports :
        LET rs == RequestsOf(p)
            n == Len(rs)
        IN  /\ \A i \in 1 .. n :
                  /\ RequestIs(rs[i].req, i)
                  /\ rs[i].req.address = IF i <= 2 THEN 0 ELSE rs[2].req.value
                  /\ (i < n) => rs[i].ok
            /\ (n >= 2) => rs[2].req.value \in 1 .. 127
            /\ (n >= 1 /\ ~rs[n].ok) => (~OnPort(p) /\ p < call.port)
            /\ (n = 6) => (ConfigValueOf(p) # 0 /\ rs[6].req.value = ConfigValueOf(p))
            /\ (n = 5 /\ rs[5].ok /\ p < call.port) => ConfigValueOf(p) = 0
            /\ (n = 5 /\ rs[5].ok /\ ConfigValueOf(p) = 0) => OnPort(p)
            /\ OnPort(p) =>
                  /\ n >= 5 /\ rs[n].ok
                  /\ n = IF ConfigValueOf(p) # 0 THEN 6 ELSE 5

\* a pass that stored a device without configuration value after five
\* requests and on which the attach of a later port failed at a request
\* addressed to the new address
C25_Witness ==
    /\ pc = "idle"
    /\ \E p, q \in Ports :
          /\ p < q
          /\ OnPort(p) /\ Len(RequestsOf(p)) = 5
          /\ Len(RequestsOf(q)) >= 3 /\ ~RequestsOf(q)[Len(RequestsOf(q))].ok
          /\ RequestsOf(q)[Len(RequestsOf(q))].req.address = 2

\* C26: the address counter advances exactly when a device is stored: when
\* enumerate_ports is between two ports or has returned, the next free
\* address is 1 plus the number of occupied table slots.
C26_CounterMatchesTable ==
    (pc \in {"enum", "idle"}) => next_address = 1 + Cardinality(Occupied)

\* the places in the log of the driver's writes of `reg` with `bit` set
WritesWith(reg, bit) == {i \in OpWrites(reg) : BitAnd(log[i].val, bit) # 0}
\* the places in the log where init set up the head QH
HeadSetUps == {i \in 1 .. Len(log) : log[i].e = "head"}

\* C27: every write of HCRESET comes after a USBCMD write with the run bit
\* clear; the write that sets CONFIGFLAG comes after the set-up of the
\* self-referential head and after the writes of PERIODICLISTBASE and
\* ASYNCLISTADDR with the two pages; every USBCMD write that sets the run
\* bit sets async-schedule-enable too and comes after the write of
\* CONFIGFLAG; USBINTR is written with 0 only.
C27_BringUpWriteOrder ==
    /\ \A i \in WritesWith(USBCMD, HCRESET) :
          \E j \in OpWrites(USBCMD) : j < i /\ BitAnd(log[j].val, RS) = 0
    /\ \A i \in OpWrites(CONFIGFLAG) :
          /\ log[i].val = 1
          /\ \E h \in HeadSetUps : h < i
          /\ HeadLink(mem) = ToU32(BitOr(AsyncQh, 2))
          /\ \E j \in OpWrites(PERIODICLISTBASE) : j < i /\ log[j].val = PeriodicList
          /\ \E j \in OpWrites(ASYNCLISTADDR) : j < i /\ log[j].val = AsyncQh
    /\ \A k \in WritesWith(USBCMD, RS) :
          /\ BitAnd(log[k].val, ASE) # 0
          /\ \E i \in OpWrites(CONFIGFLAG) : i < k
    /\ \A i \in OpWrites(USBINTR) : log[i].val = 0

\* bring-up has come to the port pass: the reset, the head, the configured
\* flag and the run bit written, and the controller running
C27_Witness ==
    /\ pc = "enum"
    /\ WritesWith(USBCMD, HCRESET) # {}
    /\ HeadSetUps # {}
    /\ OpWrites(CONFIGFLAG) # {}
    /\ WritesWith(USBCMD, RS) # {}
    /\ BitAnd(read_op_reg(opreg, USBSTS), HCHALTED) = 0

\* C28: the wait for running is left for enumerate_ports only in a state in
\* which USBSTS.HCHALTED reads clear.
C28_EnumerationAfterRunning ==
    [][(pc = "init_run_wait" /\ pc' # pc)
          => BitAnd(read_op_reg(opreg, USBSTS), HCHALTED) = 0]_vars

\* the places in the log of the writes to port registers
AllPortWrites == UNION {PortWrites(p) : p \in Ports}
PortOfWrite(i) == (log[i].reg - PORTSC_BASE) \div 4

\* C29: the ports are visited one after the other in increasing order, each
\* once: the ports below the loop index have been dealt with, the ones
\* above it are untouched, the port writes and the requests in the log are
\* in port order, and when the pass is over the index is the port count; a
\* port without a connected device is never written; attach_device was
\* invoked for a port only after a write with port-reset set, a later write
\* with it clear, and a later write of the value read with Port-Enable set.
C29_PortsVisitedInOrder ==
    /\ call.port \in 0 .. num_ports
    /\ \A p \in Ports :
          /\ (p < call.port) <=> (call.seen[p] \notin {"unvisited", "attaching"})
          /\ (p > call.port) =>
                (call.seen[p] = "unvisited" /\ PortWrites(p) = {}
                 /\ RequestsOf(p) = <<>>)
          /\ (hw.ports[p].dev = "none") =>
                (PortWrites(p) = {} /\ call.seen[p] \in {"unvisited", "empty"})
          /\ (call.seen[p] \in {"attaching", "attached", "failed"}) =>
                \E i, j, k \in PortWrites(p) :
                    /\ i < j /\ j < k
                    /\ BitAnd(log[i].val, PR) # 0
                    /\ BitAnd(log[j].val, PR) = 0
                    /\ BitAnd(log[k].val, PR) = 0 /\ BitAnd(log[k].val, PE) # 0
          /\ (RequestsOf(p) # <<>>) => call.seen[p] \in {"attaching", "attached", "failed"}
    /\ \A i, j \in AllPortWrites : (i < j) => PortOfWrite(i) <= PortOfWrite(j)
    /\ (pc = "idle") => call.port = num_ports

\* the pass is over: it found the first port empty and attached the device
\* of a later one
C29_Witness ==
    /\ pc = "idle"
    /\ \E p, q \in Ports :
          p < q /\ call.seen[p] = "empty" /\ call.seen[q] = "attached"

\* the line status field of a port register value, as PORTSC::LS numbers it
LsOf(portsc) == BitAnd(portsc, LS_MASK) \div LsField(1)

\* enumerate_ports takes its step on the port it stands at
EnumPortStep == pc = "enum" /\ call.port < num_ports /\ <<pc, call>>' # <<pc, call>>

\* C31: the value enumerate_ports takes for K-state is the register's
\* K-state encoding: a connected port whose LS field reads 1 (K-state) is
\* released to the companion controller without a reset, and a connected
\* port whose LS field reads 2 (J-state) gets the reset.
C31_KStateEncoding ==
    [][(EnumPortStep /\ Connected(read_port_reg(opreg, call.port))) =>
          LET ls == LsOf(read_port_reg(opreg, call.port))
          IN  /\ (ls = PORTSC_LS_KState) =>
                    (pc' = "enum" /\ call'.seen[call.port] = "released")
              /\ (ls = PORTSC_LS_JState) => (pc' = "enum_reset")]_vars

\* C37: for every address find_mass_storage() returns, get_bulk_endpoints
\* of that address is Some: the device reported as mass storage has a
\* bulk-in and a bulk-out endpoint recorded.
C37_StorageHasBulkEndpoints ==
    IsSome(find_mass_storage(devices)) =>
        IsSome(get_bulk_endpoints(devices, Unwrap(find_mass_storage(devices))))

\* C40: during an enumeration pass attach_device never fails with
\* NoFreeSlots.  Whatever the four-bit port count of HCSPARAMS, the number
\* of ports walked is at most 8, the capacity of the device table; while the
\* pass is at port p the table holds at most p devices and the address
\* counter is at most 1 + p (one more once attach_device has given port p's
\* device its address), so that a slot is free and the counter is below
\* 128 whenever attach_device starts; and every attach_device that starts
\* gets past its two NoFreeSlots returns to the first descriptor read.
AttachStarts == pc = "enum_check" /\ BitAnd(read_port_reg(opreg, call.port), PE) # 0
create_interrupt_queue_Ok(device, endpoint, is_in, max_packet, interval) == Ok(0)
create_interrupt_queue(device, endpoint, is_in, max_packet, interval) == Err("NotReady")

\* poll_interrupt_queue: None
poll_interrupt_queue(queue, data) == None

\* a return value that is no Result<usize, UsbError>: an Option, or "()"
Ret(v) == [ok |-> TRUE, n |-> 0, err |-> "", ret |-> v]

StubCall(name) ==
    /\ pc = "idle"
    /\ calls < MaxCalls
    /\ calls' = calls + 1
    /\ call' = [NoCall EXCEPT !.op = name]
    /\ UNCHANGED <<mem, opreg, devices, next_address, pc, log, hw, lastInit>>

CreateInterruptQueue(device, endpoint, is_in, max_packet, interval) ==
    /\ StubCall("create_interrupt_queue")
    /\ result' = create_interrupt_queue(device, endpoint, is_in, max_packet, interval)
    /\ UNCHANGED buf

PollInterruptQueue(queue, data) ==
    /\ StubCall("poll_interrupt_queue")
    /\ result' = Ret(poll_interrupt_queue(queue, data))
    /\ buf' = data

DestroyInterruptQueue(queue) ==
    /\ StubCall("destroy_interrupt_queue")
    /\ result' = Ret("()")
    /\ UNCHANGED buf

(***************************************************************************)
(* cleanup().  Its three waits have one shape: poll a status bit for at    *)
(* most 100 ms, then go on to the next write, the bit seen or not.         *)
(***************************************************************************)
CleanupWaits == {"cleanup_ass_wait", "cleanup_pss_wait", "cleanup_halt_wait"}

\* the condition on which the wait loop breaks
CleanupWaitMet(wait, regs) ==
    CASE wait = "cleanup_ass_wait" -> BitAnd(read_op_reg(regs, USBSTS), ASS) = 0
      [] wait = "cleanup_pss_wait" -> BitAnd(read_op_reg(regs, USBSTS), PSS) = 0
      [] wait = "cleanup_halt_wait" -> BitAnd(read_op_reg(regs, USBSTS), HCHALTED) # 0

\* a cleanup that stops the controller first and the schedules after
CleanupWrite_StopFirst(wait, regs) ==
    CASE wait = "idle" -> LogWrite(USBCMD, BitClear(read_op_reg(regs, USBCMD), RS))
      [] wait = "cleanup_ass_wait" ->
            LogWrite(USBCMD, BitClear(read_op_reg(regs, USBCMD), ASE))
      [] wait = "cleanup_pss_wait" ->
            LogWrite(USBCMD, BitClear(read_op_reg(regs, USBCMD), PSE))
      [] wait = "cleanup_halt_wait" -> LogWrite(CONFIGFLAG, 0)

\* the register write that follows: at the start of cleanup ("idle") and
\* after each wait
CleanupWrite(wait, regs) ==
    CASE wait = "idle" -> LogWrite(USBCMD, BitClear(read_op_reg(regs, USBCMD), ASE))
      [] wait = "cleanup_ass_wait" ->
            LogWrite(USBCMD, BitClear(read_op_reg(regs, USBCMD), PSE))
      [] wait = "cleanup_pss_wait" ->
            LogWrite(USBCMD, BitClear(read_op_reg(regs, USBCMD), RS))
      [] wait = "cleanup_halt_wait" -> LogWrite(CONFIGFLAG, 0)

CleanupAfter(wait) ==
    CASE wait = "idle" -> "cleanup_ass_wait"
      [] wait = "cleanup_ass_wait" -> "cleanup_pss_wait"
      [] wait = "cleanup_pss_wait" -> "cleanup_halt_wait"
      [] wait = "cleanup_halt_wait" -> "cleanup_done"

CleanupProceed ==
    /\ opreg' = write_op_reg(opreg, CleanupWrite(pc, opreg).reg, CleanupWrite(pc, opreg).val)
    /\ log' = Append(log, CleanupWrite(pc, opreg))
    /\ pc' = CleanupAfter(pc)
    /\ UNCHANGED <<mem, devices, next_address, buf, result, calls, lastInit>>

\* cleanup() is called: 1. disable the async schedule
Cleanup ==
    /\ pc = "idle"
    /\ call' = [NoCall EXCEPT !.op = "cleanup"]
    /\ CleanupProceed
    /\ UNCHANGED hw

\* the wait loop reads its status bit as awaited and breaks
CleanupWaitSeen ==
    /\ pc \in CleanupWaits
    /\ CleanupWaitMet(pc, opreg)
    /\ CleanupProceed
    /\ UNCHANGED <<call, hw>>

\* the wait's 100 ms expire with the status bit not as awaited
CleanupWaitExpire ==
    /\ pc \in CleanupWaits
    /\ ~CleanupWaitMet(pc, opreg)
    /\ HwLate(TRUE)
    /\ CleanupProceed
    /\ UNCHANGED call

\* the controller's side: the async schedule status follows the enable bit
HwAsyncStop ==
    /\ pc \in CleanupWaits \cup {"cleanup_done"}
    /\ BitAnd(opreg[USBCMD], ASE) = 0
    /\ BitAnd(opreg[USBSTS], ASS) # 0
    /\ opreg' = [opreg EXCEPT ![USBSTS] = BitClear(@, ASS)]
    /\ UNCHANGED <<mem, devices, next_address, pc, call, buf, result, calls, log, hw,
                   lastInit>>

\* The controller as transfers can leave it: the doorbell bit still set in
\* USBCMD after an unanswered doorbell, an unacknowledged IAA in USBSTS.
ShutdownInit ==
    /\ mem = InitHead([a \in Addrs |-> 0])
    /\ \E iaad \in {0, IAAD}, iaa \in {0, IAA} :
          opreg = [InitRegs EXCEPT ![USBCMD] = BitOr(@, iaad), ![USBSTS] = BitOr(@, iaa)]
    /\ devices = EnumeratedDevices
    /\ next_address = 3
    /\ pc = "idle"
    /\ call = NoCall
    /\ buf = <<>>
    /\ result = NoResult
    /\ calls = 0
    /\ log = <<>>
    /\ hw = NoHw
    /\ lastInit = [k \in DeviceArgs \X BOOLEAN |-> -1]

ShutdownNext ==
    \/ \E d \in DeviceArgs, is_in \in BOOLEAN : CreateInterruptQueue(d, 1, is_in, 8, 10)
    \/ \E q \in {0, 1}, n \in DataLens : PollInterruptQueue(q, CallerBuf(n))
    \/ \E q \in {0, 1} : DestroyInterruptQueue(q)
    \/ Cleanup
    \/ CleanupWaitSeen
    \/ CleanupWaitExpire
    \/ HwAsyncStop
    \/ HwHalt

SpecShutdown == ShutdownInit /\ [][ShutdownNext]_vars

(***************************************************************************)
(* Properties of cleanup() and of the interrupt-queue stubs.               *)
(***************************************************************************)
\* the number of register writes cleanup has made when it is at pc
CleanupWritten ==
    CASE pc = "idle" -> 0
      [] pc = "cleanup_ass_wait" -> 1
      [] pc = "cleanup_pss_wait" -> 2
      [] pc = "cleanup_halt_wait" -> 3
      [] pc = "cleanup_done" -> 4

Bit(i, reg, bit) == log[i].e = "write" /\ log[i].reg = reg /\ BitAnd(log[i].val, bit) # 0
NoBit(i, reg, bit) == log[i].e = "write" /\ log[i].reg = reg /\ BitAnd(log[i].val, bit) = 0

\* C14: the register writes of cleanup() come in one order, whatever the
\* controller does and whether the waits are met or expire: first USBCMD
\* with the async-schedule enable cleared, then USBCMD with the
\* periodic-schedule enable cleared, both with the run bit still set, then
\* USBCMD with the run bit cleared, and CONFIGFLAG = 0 last.
C14_CleanupWriteOrder ==
    /\ Len(log) = CleanupWritten
    /\ (Len(log) >= 1) => (NoBit(1, USBCMD, ASE) /\ Bit(1, USBCMD, RS))
    /\ (Len(log) >= 2) =>
          (NoBit(2, USBCMD, PSE) /\ NoBit(2, USBCMD, ASE) /\ Bit(2, USBCMD, RS))
    /\ (Len(log) >= 3) =>
          (NoBit(3, USBCMD, RS) /\ NoBit(3, USBCMD, PSE) /\ NoBit(3, USBCMD, ASE))
    /\ (Len(log) >= 4) => (log[4] = LogWrite(CONFIGFLAG, 0))

\* cleanup ran to its end although one of its waits expired
C14_Witness ==
    pc = "cleanup_done" /\ hw.faults > 0 /\ read_op_reg(opreg, CONFIGFLAG) = 0

\* C15: cleanup() takes each step only after the status bit of the
\* previous one was read as awaited: it leaves the async wait only with
\* USBSTS.ASS clear, the periodic wait only with USBSTS.PSS clear, and the
\* halt wait only with USBSTS.HCHALTED set.
C15_StepsConfirmed ==
    [][/\ (pc = "cleanup_ass_wait" /\ pc' = "cleanup_pss_wait")
          => BitAnd(read_op_reg(opreg, USBSTS), ASS) = 0
       /\ (pc = "cleanup_pss_wait" /\ pc' = "cleanup_halt_wait")
          => BitAnd(read_op_reg(opreg, USBSTS), PSS) = 0
       /\ (pc = "cleanup_halt_wait" /\ pc' = "cleanup_done")
          => BitAnd(read_op_reg(opreg, USBSTS), HCHALTED) # 0]_vars

\* C17: a call of create_interrupt_queue returns Err(NotReady), one of
\* poll_interrupt_queue None, one of destroy_interrupt_queue nothing; none
\* of them changes memory (the async list), the registers, the device
\* table or the address counter, and none writes a register.
C17_StubsInert ==
    [][(calls' = calls + 1) =>
          /\ UNCHANGED <<mem, opreg, devices, next_address, log, pc>>
          /\ call'.op \in {"create_interrupt_queue", "poll_interrupt_queue",
                           "destroy_interrupt_queue"}
          /\ (call'.op = "create_interrupt_queue") => (result' = Err("NotReady"))
          /\ (call'.op = "poll_interrupt_queue") => (result' = Ret(None))
          /\ (call'.op = "destroy_interrupt_queue") => (result' = Ret("()"))]_vars

C17_Witness ==
    /\ calls = MaxCalls
    /\ call.op = "create_interrupt_queue"
    /\ result = Err("NotReady")

(***************************************************************************)
(***************************************************************************)
(* Transfer lengths.  The specification SpecLengths makes the same calls   *)
(* as Spec on the same controller, with OUT buffers of lengths around the  *)
(* width of the qTD's total-bytes field (15 bits).  The model's memory     *)
(* holds the first MaxLen bytes of a staging buffer; the bytes of a longer *)
(* buffer beyond them are not kept.                                        *)
(***************************************************************************)
(***************************************************************************)
LongLens == {MaxLen, 32767, 32768, 32768 + MaxLen, 65536}

\* control_transfer: a vendor OUT request with a data stage
LongControlTransfer == \E n \in LongLens : ControlTransfer(1, 64, 1, 0, 0, Some(Zeros(n)))

\* bulk_transfer: OUT to the storage device
LongBulkTransfer == \E n \in LongLens : BulkTransfer(1, 2, FALSE, Zeros(n))

LengthsNext ==
    \/ LongControlTransfer
    \/ CtlWaitDone
    \/ CtlWaitExpire
    \/ CtlRemove
    \/ CtlIaaSeen
    \/ CtlIaaExpire
    \/ LongBulkTransfer
    \/ BulkWaitDone
    \/ BulkWaitExpire
    \/ BulkRemove
    \/ HwCompleteQtd
    \/ HwAsyncAdvance

SpecLengths == Init /\ [][LengthsNext]_vars

\* the wLength field of the setup packet in the DMA buffer
SetupLength(m) == m[DmaBuffer + 6] + 256 * m[DmaBuffer + 7]
\* the token of the qTD that carries the data of the call
DataTokenOf(m, c) ==
    Read32(m, (IF c.op = "control" THEN CtlDataQtd ELSE BulkQtdAddr) + QTD_token)

\* C30: the step of a call that submits a transfer with data leaves the
\* requested length in the total-bytes field of the DATA qTD or of the bulk
\* qTD, and for a control request in wLength of the setup packet; a call
\* that returns Ok returns at most the requested length.
C30_LengthEncoded ==
    [][/\ (IsCall /\ call'.inserted /\ call'.len > 0) =>
             /\ TokenTotalBytes(DataTokenOf(mem', call')) = call'.len
             /\ (call'.op = "control") => (SetupLength(mem') = call'.len)
       /\ (pc # "idle" /\ pc' = "idle" /\ result'.ok) => (result'.n <= call.len)]_vars

\* a bulk transfer of 32768 bytes returned Ok(32768) although its qTD asked
\* the controller for no byte and the controller reported none left
LongReturnedMoreThanAsked ==
    /\ Returned /\ call.op = "bulk" /\ call.len = 32768
    /\ result = Ok(32768)
    /\ TokenTotalBytes(BulkToken) = 0

\* DMA_BUFFER_SIZE: the bytes allocated at dma_buffer
DMA_BUFFER_SIZE == 65536

\* the bytes of the requested length that the loop of
\* QueueTransferDescriptor::data leaves without a buffer pointer: remaining
\* when the loop over the five pointers ends
RECURSIVE DataUncovered(_, _, _)
DataUncovered(i, addr, remaining) ==
    IF i >= 5 \/ remaining = 0 THEN remaining
    ELSE LET page_offset == addr % 4096
             this_page == IF 4096 - page_offset < remaining
                          THEN 4096 - page_offset ELSE remaining
         IN  DataUncovered(i + 1, addr + this_page, remaining - this_page)

\* the staging area of the call c
StagingOf(c) == IF c.op = "control" THEN CtlDataBuffer ELSE BulkDataBuffer

\* C35: the step of a call that submits a transfer with data keeps the
\* staging area inside the DMA region, staging offset + length at most
\* DMA_BUFFER_SIZE, and gives every byte of the length one of the five
\* buffer pointers of the qTD.
C35_StagingInsideRegion ==
    [][(IsCall /\ call'.inserted /\ call'.len > 0) =>
          /\ StagingOf(call') + call'.len <= DmaBuffer + DMA_BUFFER_SIZE
          /\ DataUncovered(0, StagingOf(call'), call'.len) = 0]_vars

\* the first conjunct of C35 alone
StagingFits ==
    [][(IsCall /\ call'.inserted /\ call'.len > 0) =>
          StagingOf(call') + call'.len <= DmaBuffer + DMA_BUFFER_SIZE]_vars

(***************************************************************************)
(***************************************************************************)
(* Insertion, store by store.  The specification SpecInsert makes the      *)
(* calls of Spec with each store of control_transfer_internal and          *)
(* bulk_transfer up to the insertion a step of its own, the host           *)
(* controller running beside them.  The stores are plain stores: until a   *)
(* fence the compiler and the CPU may perform them in any order that keeps *)
(* the order of stores to the same bytes; fence(Ordering::SeqCst) keeps    *)
(* every store before it ahead of every store after it.  call has two      *)
(* more fields here: stores, the stores of the call in program order, and  *)
(* pending, the ones not yet performed.                                    *)
(***************************************************************************)
(***************************************************************************)
\* a store of the bytes s at a; a store at a of the u32 read at from
Store(a, s) == [a |-> a, s |-> s, from |-> -1]
Copy(a, from) == [a |-> a, s |-> Zeros(4), from |-> from]

\* the stores of control_transfer_internal, in program order; the last one
\* links the QH behind the head
CtlStores(device, request_type, request, value, index, data) ==
    LET is_in == BitAnd(request_type, 128) # 0
        data_len == IF IsSome(data) THEN Len(Unwrap(data)) ELSE 0
        chain_end == IF data_len > 0 THEN CtlDataQtd ELSE CtlSetupQtd
    IN  <<Store(DmaBuffer,
                <<request_type, request, value % 256, (value \div 256) % 256,
                  index % 256, (index \div 256) % 256,
                  data_len % 256, (data_len \div 256) % 256>>)>>
        \o (IF data_len > 0 /\ ~is_in
            THEN <<Store(CtlDataBuffer, Unwrap(data))>> ELSE <<>>)
        \o <<Store(CtlQhAddr,
                   QhImage(QueueHeadNew(device.address, 0, device.ep0_max_packet,
                                        device.speed, TRUE))),
             Store(CtlSetupQtd, QtdImage(QtdSetup(DmaBuffer, FALSE)))>>
        \o (IF data_len > 0
            THEN <<Store(CtlDataQtd,
                         QtdImage(QtdData(CtlDataBuffer, data_len, is_in, TRUE))),
                   Store(CtlSetupQtd + QTD_next_qtd, ToU32(CtlDataQtd))>>
            ELSE <<>>)
        \o <<Store(CtlStatusQtd(data_len), QtdImage(QtdStatus(~is_in \/ data_len = 0))),
             Store(chain_end + QTD_next_qtd, ToU32(CtlStatusQtd(data_len))),
             Store(CtlQhAddr + QH_overlay + QTD_next_qtd, ToU32(CtlQtdBase)),
             Store(CtlQhAddr + QH_cur_qtd, ToU32(0)),
             Copy(CtlQhAddr + QH_horiz_link_ptr, AsyncQh + QH_horiz_link_ptr),
             Store(AsyncQh + QH_horiz_link_ptr, ToU32(BitOr(CtlQhAddr, 2)))>>

\* the stores of bulk_transfer, in program order
BulkStores(dev, endpoint, is_in, data, max_packet, toggle) ==
    LET qtd == QtdData(BulkDataBuffer, Len(data), is_in, toggle)
    IN  (IF Len(data) > 0 /\ ~is_in THEN <<Store(BulkDataBuffer, data)>> ELSE <<>>)
        \o <<Store(BulkQhAddr,
                   QhImage(QueueHeadNew(dev.address, endpoint, max_packet, dev.speed,
                                        FALSE))),
             Store(BulkQtdAddr, QtdImage(qtd)),
             Store(BulkQtdAddr + QTD_token,
                   U32(Hi16(qtd.token), BitOr(Lo16(qtd.token), TOKEN_IOC))),
             Store(BulkQhAddr + QH_overlay + QTD_next_qtd, ToU32(BulkQtdAddr)),
             Store(BulkQhAddr + QH_cur_qtd, ToU32(0)),
             Copy(BulkQhAddr + QH_horiz_link_ptr, AsyncQh + QH_horiz_link_ptr),
             Store(AsyncQh + QH_horiz_link_ptr, ToU32(BitOr(BulkQhAddr, 2)))>>

\* memory after the store st
Perform(m, st) ==
    IF st.from >= 0 THEN Write32(m, st.a, Read32(m, st.from))
    ELSE WriteBytes(m, st.a, st.s)

\* the bytes a store touches: the ones it writes and, for a copy, reads
Touched(st) ==
    (st.a .. st.a + Len(st.s) - 1)
        \cup (IF st.from >= 0 THEN st.from .. st.from + 3 ELSE {})

\* stores that ignore the fence before the store that links the QH
Fenced_None(stores, pending, i) == TRUE

\* fence(Ordering::SeqCst) between the copy of the head's link into the QH
\* and the store to the head's link: the last store waits for all others
Fenced(stores, pending, i) == (i = Len(stores)) => (pending = {i})

\* store i can be performed next: the fence allows it and no earlier store
\* to bytes it touches is pending
Ready(stores, pending, i) ==
    /\ i \in pending
    /\ Fenced(stores, pending, i)
    /\ \A j \in pending : (j < i) => (Touched(stores[j]) \cap Touched(stores[i]) = {})

BuildPcs == {"ctl_build", "bulk_build"}

NoBuild == [stores |-> <<>>, pending |-> {}]

InsertInit ==
    /\ mem = InitHead([a \in Addrs |-> 0])
    /\ opreg = InitRegs
    /\ devices = EnumeratedDevices
    /\ next_address = 3
    /\ pc = "idle"
    /\ call = NoCall @@ NoBuild
    /\ buf = <<>>
    /\ result = NoResult
    /\ calls = 0
    /\ log = <<>>
    /\ hw = NoHw
    /\ lastInit = [k \in DeviceArgs \X BOOLEAN |-> -1]

\* control_transfer, up to the first store
BeginControl(device, request_type, request, value, index, data) ==
    /\ pc = "idle"
    /\ calls < MaxCalls
    /\ IsSome(get_device(devices, device))
    /\ calls' = calls + 1
    /\ buf' = IF IsSome(data) THEN Unwrap(data) ELSE <<>>
    /\ log' = <<LogOp("insert")>>
    /\ hw' = [hw EXCEPT !.bytes = <<>>]
    /\ LET dev == Unwrap(get_device(devices, device))
           stores == CtlStores(dev, request_type, request, value, index, data)
       IN  call' = [NoCall EXCEPT
                       !.op = "control", !.device = device,
                       !.is_in = BitAnd(request_type, 128) # 0,
                       !.has_data = IsSome(data),
                       !.len = IF IsSome(data) THEN Len(Unwrap(data)) ELSE 0,
                       !.data0 = IF IsSome(data) THEN Unwrap(data) ELSE <<>>,
                       !.inserted = TRUE,
                       !.headBefore = HeadLink(mem),
                       !.devices0 = devices]
                   @@ [stores |-> stores, pending |-> 1 .. Len(stores)]
    /\ pc' = "ctl_build"
    /\ result' = NoResult
    /\ UNCHANGED <<mem, opreg, devices, next_address, lastInit>>

\* bulk_transfer, up to the first store
BeginBulk(device, endpoint, is_in, data) ==
    /\ pc = "idle"
    /\ calls < MaxCalls
    /\ IsSome(get_device(devices, device))
    /\ IsSome(BulkEndpoint(Unwrap(get_device(devices, device)), is_in))
    /\ calls' = calls + 1
    /\ buf' = data
    /\ log' = <<LogOp("insert")>>
    /\ hw' = [hw EXCEPT !.bytes = <<>>]
    /\ LET dev == Unwrap(get_device(devices, device))
           max_packet == Unwrap(BulkEndpoint(dev, is_in)).max_packet_size
           toggle == BulkToggle(dev, is_in)
           stores == BulkStores(dev, endpoint, is_in, data, max_packet, toggle)
       IN  call' = [NoCall EXCEPT
                       !.op = "bulk", !.device = device, !.endpoint = endpoint,
                       !.is_in = is_in, !.has_data = TRUE, !.len = Len(data),
                       !.data0 = data, !.toggle = toggle, !.inserted = TRUE,
                       !.headBefore = HeadLink(mem),
                       !.devices0 = devices,
                       !.prevInit = lastInit[<<device, is_in>>]]
                   @@ [stores |-> stores, pending |-> 1 .. Len(stores)]
    /\ pc' = "bulk_build"
    /\ result' = NoResult
    /\ UNCHANGED <<mem, opreg, devices, next_address, lastInit>>

\* one store reaches memory; after the last one the wait loop starts
BuildStore ==
    /\ pc \in BuildPcs
    /\ \E i \in call.pending :
          /\ Ready(call.stores, call.pending, i)
          /\ mem' = Perform(mem, call.stores[i])
          /\ call' = [call EXCEPT !.pending = call.pending \ {i}]
          /\ pc' = IF call.pending = {i}
                   THEN (IF pc = "ctl_build" THEN "ctl_wait" ELSE "bulk_wait")
                   ELSE pc
    /\ UNCHANGED <<opreg, devices, next_address, buf, result, calls, log, hw, lastInit>>

\* the calls: to the storage device, control requests without buffer and
\* with a buffer of MaxLen bytes in either direction, bulk transfers of
\* MaxLen bytes on the endpoint of their direction
InsertControlArgs ==
    {a \in ControlArgs : a.device = 1 /\ (IsSome(a.data) => Len(Unwrap(a.data)) = MaxLen)}
InsertBulkArgs ==
    {a \in BulkArgs : /\ a.device = 1 /\ Len(a.data) = MaxLen
                      /\ a.endpoint = IF a.is_in THEN 1 ELSE 2}

InsertNext ==
    \/ \E a \in InsertControlArgs :
          BeginControl(a.device, a.request_type, a.request, a.value, a.index, a.data)
    \/ \E a \in InsertBulkArgs :
          BeginBulk(a.device, a.endpoint, a.is_in, a.data)
    \/ BuildStore
    \/ CtlWaitDone
    \/ CtlWaitExpire
    \/ CtlRemove
    \/ CtlIaaSeen
    \/ CtlIaaExpire
    \/ BulkWaitDone
    \/ BulkWaitExpire
    \/ BulkRemove
    \/ HwCompleteQtd
    \/ HwAsyncAdvance

SpecInsert == InsertInit /\ [][InsertNext]_vars

\* the QH of the call in progress
CallQh == IF call.op = "control" THEN CtlQhAddr ELSE BulkQhAddr

\* the QH at qh in memory m is the one QueueHead::new makes for the call,
\* its overlay pointing at the first qTD of the chain
QhBuilt(m, qh, first) ==
    /\ BitAnd(Lo16(Read32(m, qh + QH_ep_chars)), 127) = call.device
    /\ LinksTo(Read32(m, qh + QH_overlay + QTD_next_qtd), first)
    /\ Read32(m, qh + QH_cur_qtd) = ToU32(0)
    /\ ~Active(Read32(m, qh + QH_overlay + QTD_token))

\* the one qTD of a bulk transfer as memory m holds it
BulkChain(m, len, is_in) ==
    LET tok == Read32(m, BulkQtdAddr + QTD_token)
    IN  /\ TokenPid(tok) = (IF is_in THEN PID_IN ELSE PID_OUT)
        /\ Active(tok) /\ TokenIoc(tok) /\ TokenTotalBytes(tok) = len
        /\ PtrTerminate(Read32(m, BulkQtdAddr + QTD_next_qtd))

\* the QH of the call and its qTD chain are complete in memory m
FullyInitialised(m) ==
    IF call.op = "control"
    THEN QhBuilt(m, CtlQhAddr, CtlSetupQtd) /\ CtlChain(m, call.len, call.is_in)
    ELSE QhBuilt(m, BulkQhAddr, BulkQtdAddr) /\ BulkChain(m, call.len, call.is_in)

\* what the controller finds when it follows the head's link: the head, or
\* the QH of the call with every store of the call performed and its own
\* link, the head's former link, leading back to the head
WalkSafe ==
    \/ HwLinkedQh(mem) = AsyncQh
    \/ /\ HwLinkedQh(mem) = CallQh
       /\ call.pending = {}
       /\ Read32(mem, CallQh + QH_horiz_link_ptr) = call.headBefore
       /\ PtrAddr(Read32(mem, CallQh + QH_horiz_link_ptr)) = AsyncQh

\* C23: in every state, between any two stores of a call, the head's link
\* leads to the head or to a QH all of whose stores have been performed and
\* whose link is the head's former link, which leads to the head; until
\* the store to the head's link the controller finds nothing to execute,
\* and that store leaves the head pointing at a QH that is complete in
\* memory together with its qTD chain.
C23_InsertionSafe ==
    /\ []WalkSafe
    /\ [](pc \in BuildPcs => HwActiveQtd(mem) = 0)
    /\ [][(pc \in BuildPcs /\ HwLinkedQh(mem') # AsyncQh)
             => (HwLinkedQh(mem') = CallQh /\ FullyInitialised(mem'))]_vars

\* the second call of a behaviour has stored its STATUS qTD and the copy of
\* the head's link while the setup packet is still to be stored
C23_Witness ==
    /\ pc = "ctl_build" /\ calls = MaxCalls
    /\ 1 \in call.pending
    /\ Cardinality(call.pending) = 2
    /\ HwLinkedQh(mem) = AsyncQh
    /\ Read32(mem, CtlQhAddr + QH_horiz_link_ptr) = ToU32(BitOr(AsyncQh, 2))

(***************************************************************************)
(***************************************************************************)
(* Termination.  The specification SpecTerminates runs new(), the          *)
(* transfers and cleanup() with timeouts that always expire in the end:    *)
(* the count of late answers starts Patience below MaxFaults, more than a  *)
(* behaviour has waits, so that no expiry is ever refused, and the steps   *)
(* of the driver inside an operation are taken when they stay possible.    *)
(* Nothing is asked of the controller: it may answer, answer late or stay  *)
(* silent for ever.                                                        *)
(***************************************************************************)
(***************************************************************************)
\* more than the waits of one behaviour: two per transfer, three in
\* cleanup(); three in init() and one failing request per port
Patience == 2 * MaxCalls + NumPorts + 3

\* bring-up is told from the rest by the ports the controller model carries
IsBringUp == "ports" \in DOMAIN hw

TerminatesInit ==
    /\ lastInit = [k \in DeviceArgs \X BOOLEAN |-> -1]
    /\ buf = <<>>
    /\ result = NoResult
    /\ calls = 0
    /\ log = <<>>
    /\ \/ /\ mem = InitHead([a \in Addrs |-> 0])
          /\ opreg = InitRegs
          /\ devices = EnumeratedDevices
          /\ next_address = 3
          /\ pc = "idle"
          /\ call = NoCall
          /\ hw = [NoHw EXCEPT !.faults = MaxFaults - Patience]
       \/ /\ mem = [a \in Addrs |-> 0]
          /\ \E running \in BOOLEAN, kinds \in [Ports -> PortKinds], reset_ok \in BOOLEAN :
                /\ opreg = FirmwareRegs(running, kinds)
                /\ hw = [ports |-> kinds, reset_ok |-> reset_ok,
                         faults |-> MaxFaults - Patience]
          /\ devices = [s \in Slots |-> None]
          /\ next_address = 1
          /\ pc = "new"
          /\ call = NoEnum

\* the steps of the driver inside control_transfer and bulk_transfer
TransferStep ==
    \/ CtlWaitDone
    \/ CtlWaitExpire
    \/ CtlRemove
    \/ CtlIaaSeen
    \/ CtlIaaExpire
    \/ BulkWaitDone
    \/ BulkWaitExpire
    \/ BulkRemove

\* the steps of the driver inside cleanup()
CleanupStep ==
    \/ CleanupWaitSeen
    \/ CleanupWaitExpire

\* the steps of the driver inside new(): init, enumerate_ports, attach_device
BringUpStep ==
    \/ InitStop
    \/ InitHaltSeen
    \/ InitHaltExpire
    \/ InitResetSeen
    \/ InitResetExpire
    \/ InitRunSeen
    \/ InitRunExpire
    \/ EnumPort
    \/ EnumClearReset
    \/ EnumCheck
    \/ EnumDone
    \/ AttachTransferFails
    \/ AttachDesc8
    \/ AttachSetAddress
    \/ AttachDesc18
    \/ AttachConfigHeader
    \/ AttachConfig
    \/ AttachSetConfiguration

\* a step of the driver inside an operation
DriverStep ==
    \/ ~IsBringUp /\ TransferStep
    \/ ~IsBringUp /\ CleanupStep
    \/ IsBringUp /\ BringUpStep

\* the transfers of a behaviour: one fewer than MaxCalls, no bound on the
\* late answers cutting them short here
TerminatingCalls == MaxCalls - 1

\* the caller starts an operation: a transfer, or cleanup() on the
\* controller as new() left it
CallerStep ==
    /\ ~IsBringUp
    /\ \/ /\ calls < TerminatingCalls
          /\ \E a \in ControlArgs :
                ControlTransfer(a.device, a.request_type, a.request, a.value, a.index,
                                a.data)
       \/ /\ calls < TerminatingCalls
          /\ \E a \in BulkArgs : BulkTransfer(a.device, a.endpoint, a.is_in, a.data)
       \/ calls = 0 /\ Cleanup

\* the controller acts
ControllerStep ==
    \/ ~IsBringUp /\ HwCompleteQtd
    \/ ~IsBringUp /\ HwAsyncAdvance
    \/ ~IsBringUp /\ HwAsyncStop
    \/ HwHalt
    \/ IsBringUp /\ HwResetDone
    \/ IsBringUp /\ HwRun

TerminatesNext ==
    \/ DriverStep
    \/ CallerStep
    \/ ControllerStep

SpecTerminates == TerminatesInit /\ [][TerminatesNext]_vars /\ WF_vars(DriverStep)

\* no operation is in progress: before a call, after a return, after new()
\* has failed, after cleanup()
AtRest == pc \in {"idle", "failed", "cleanup_done"}

\* C22: every operation terminates whatever the controller does, when
\* timeouts expire: no expiry is ever refused for want of a late answer
\* left to give, and from every state the driver comes to rest, new() at
\* its return (enumeration done or init failed), a transfer at its return,
\* cleanup() after its last write.
C22_OperationsTerminate ==
    /\ [](hw.faults < MaxFaults)
    /\ []<>AtRest

\* every transfer of a behaviour has returned with both of its waits
\* expired on a controller that could still have answered
C22_Witness ==
    /\ ~IsBringUp
    /\ pc = "idle"
    /\ calls = TerminatingCalls
    /\ call.expired
    /\ hw.faults = MaxFaults - Patience + 2 * TerminatingCalls

====
